---- MODULE Spec2Model ----
(***************************************************************************)
(* A model of the hourglass storage layer: the Activity record, the        *)
(* flat-file (Csv) backend working on a file of bytes, and the relational   *)
(* (Sql) backend working on an SQLite table.                                *)
(*                                                                          *)
(* A byte is a one-character string and a Go string or []byte is a          *)
(* sequence of such bytes.  The file of the Csv backend is modelled byte    *)
(* for byte: 45 bytes of front matter, 31 bytes of header, then the record  *)
(* lines as encoding/csv writes them.                                       *)
(***************************************************************************)
EXTENDS Integers, Sequences, FiniteSets, TLC

(***************************************************************************)
(* Bounds of the model.                                                     *)
(***************************************************************************)
\* number of creates (SaveActivity with id 0) a behaviour performs
MaxCreates == 2

\* number of updates (SaveActivity with an id above 0) a behaviour performs
MaxUpdates == 1

\* the instants the bounds of a query range over are 0..MaxInstant
MaxInstant == 4

\* the longest tag sequence given to TagList
MaxTags == 2

\* the number of goroutines that call into one Csv value at the same time
NumCallers == 2

(***************************************************************************)
(* Bytes, decimal formatting and parsing (strconv).                         *)
(***************************************************************************)
COMMA == ","
QUOTE == "\""
NL == "\n"
SPACE == " "

Digits == <<"0", "1", "2", "3", "4", "5", "6", "7", "8", "9">>

IsDigit(c) == \E d \in 1..10 : Digits[d] = c

DigitVal(c) == (CHOOSE d \in 1..10 : Digits[d] = c) - 1

RECURSIVE FormatNat(_)
FormatNat(n) ==
  IF n < 10 THEN <<Digits[n + 1]>>
  ELSE FormatNat(n \div 10) \o <<Digits[(n % 10) + 1]>>

\* strconv.FormatInt(n, 10)
FormatInt(n) == IF n < 0 THEN <<"-">> \o FormatNat(0 - n) ELSE FormatNat(n)

RECURSIVE DigitsValue(_, _)
DigitsValue(s, acc) ==
  IF s = <<>> THEN acc
  ELSE DigitsValue(Tail(s), acc * 10 + DigitVal(Head(s)))

\* strconv.ParseInt(s, 10, 64): an optional sign, then one or more digits
ParseInt(s) ==
  LET signed == s # <<>> /\ Head(s) \in {"+", "-"}
      body == IF signed THEN Tail(s) ELSE s
  IN IF body = <<>> \/ \E i \in 1..Len(body) : ~IsDigit(body[i])
     THEN [ok |-> FALSE, val |-> 0]
     ELSE [ok |-> TRUE,
           val |-> IF signed /\ Head(s) = "-"
                   THEN 0 - DigitsValue(body, 0)
                   ELSE DigitsValue(body, 0)]

RECURSIVE Zeros(_)
Zeros(n) == IF n <= 0 THEN <<>> ELSE <<"0">> \o Zeros(n - 1)

\* the verb %d without a width: the decimal digits as they are
PadDigitsNoWidth(d, w) == d

\* the verb %0<w>d on a number whose decimal digits are d: zeros in front up
\* to the width w, no digit dropped
PadDigits(d, w) == Zeros(w - Len(d)) \o d

\* fmt.Sprintf("%0<w>d", n) for n >= 0
PadInt(n, w) == PadDigits(FormatNat(n), w)

\* the bytes of s from index i (1-based) to the end
From(s, i) == SubSeq(s, i, Len(s))

\* the least index j >= i with s[j] = c, or 0 when there is none
IndexFrom(s, i, c) ==
  IF \E j \in i..Len(s) : s[j] = c
  THEN CHOOSE j \in i..Len(s) : s[j] = c /\ \A k \in i..(j - 1) : s[k] # c
  ELSE 0

(***************************************************************************)
(* time.Time.  An instant is a small natural number, 0 being the zero      *)
(* time; a Time carries its instant and the offset of its location.        *)
(* Format writes the wall clock reading (one digit here instead of the     *)
(* date and time of day) followed by the RFC3339 zone, "Z" or "+01:00";    *)
(* Parse reads both back.                                                   *)
(***************************************************************************)
ZoneUTC == <<"Z">>
ZonePlus1 == <<"+", "0", "1", ":", "0", "0">>

\* the offset of the machine's local zone, in clock units
LocalOffset == 1

ZeroTime == [inst |-> 0, off |-> 0]

\* time.Time.Format(time.RFC3339Nano)
TimeFormat(t) ==
  <<Digits[t.inst + t.off + 1]>> \o (IF t.off = 0 THEN ZoneUTC ELSE ZonePlus1)

\* time.Parse(time.RFC3339Nano, s)
TimeParse(s) ==
  IF s # <<>> /\ IsDigit(Head(s)) /\ Tail(s) = ZoneUTC
  THEN [ok |-> TRUE, t |-> [inst |-> DigitVal(Head(s)), off |-> 0]]
  ELSE IF s # <<>> /\ IsDigit(Head(s)) /\ Tail(s) = ZonePlus1
  THEN [ok |-> TRUE, t |-> [inst |-> DigitVal(Head(s)) - 1, off |-> 1]]
  ELSE [ok |-> FALSE, t |-> ZeroTime]

\* time.Time.UTC and time.Time.Local keep the instant and change the location
TimeUTC(t) == [inst |-> t.inst, off |-> 0]
TimeLocal(t) == [inst |-> t.inst, off |-> LocalOffset]

\* time.Time.IsZero and time.Time.Equal compare instants
TimeIsZero(t) == t.inst = 0
TimeEqual(a, b) == a.inst = b.inst

(***************************************************************************)
(* Activity.                                                                *)
(***************************************************************************)
TagSep == <<",", " ">>

RECURSIVE Join(_, _)
Join(ss, sep) ==
  IF ss = <<>> THEN <<>>
  ELSE IF Len(ss) = 1 THEN ss[1]
  ELSE ss[1] \o sep \o Join(Tail(ss), sep)

\* the least index at which sep occurs in s, or 0
IndexOf(s, sep) ==
  LET hit(i) == i + Len(sep) - 1 <= Len(s) /\ SubSeq(s, i, i + Len(sep) - 1) = sep
  IN IF \E i \in 1..Len(s) : hit(i)
     THEN CHOOSE i \in 1..Len(s) : hit(i) /\ \A k \in 1..(i - 1) : ~hit(k)
     ELSE 0

RECURSIVE Split(_, _)
Split(s, sep) ==
  LET i == IndexOf(s, sep)
  IN IF i = 0 THEN <<s>>
     ELSE <<SubSeq(s, 1, i - 1)>> \o Split(From(s, i + Len(sep)), sep)

TagList(a) == Join(a.Tags, TagSep)

SetTagList(tagList) == IF tagList = <<>> THEN <<>> ELSE Split(tagList, TagSep)

IsRunning(a) == TimeIsZero(a.End)

ActivityEqual(a, b) ==
  /\ a.Id = b.Id
  /\ a.Name = b.Name
  /\ a.Project = b.Project
  /\ Len(a.Tags) = Len(b.Tags)
  /\ \A i \in 1..Len(a.Tags) : b.Tags[i] = a.Tags[i]
  /\ TimeEqual(a.Start, b.Start)
  /\ TimeEqual(a.End, b.End)

NoActivity ==
  [Id |-> 0, Name |-> <<>>, Project |-> <<>>, Tags |-> <<>>,
   Start |-> ZeroTime, End |-> ZeroTime]

(***************************************************************************)
(* encoding/csv as the Csv backend uses it.                                 *)
(***************************************************************************)
\* csv.Writer.fieldNeedsQuotes
FieldNeedsQuotes(f) ==
  /\ f # <<>>
  /\ \/ \E i \in 1..Len(f) : f[i] \in {COMMA, QUOTE, NL, "\r"}
     \/ f[1] \in {SPACE, NL, "\t", "\r"}

RECURSIVE QuoteBody(_)
QuoteBody(f) ==
  IF f = <<>> THEN <<>>
  ELSE (IF Head(f) = QUOTE THEN <<QUOTE, QUOTE>> ELSE <<Head(f)>>)
       \o QuoteBody(Tail(f))

CsvField(f) ==
  IF FieldNeedsQuotes(f) THEN <<QUOTE>> \o QuoteBody(f) \o <<QUOTE>> ELSE f

RECURSIVE CsvFields(_)
CsvFields(record) ==
  IF Len(record) = 1 THEN CsvField(record[1])
  ELSE CsvField(record[1]) \o <<COMMA>> \o CsvFields(Tail(record))

\* csv.Writer.Write followed by Flush: the bytes of one record line
CsvWrite(record) == CsvFields(record) \o <<NL>>

\* csv.Reader: a field that does not start with a quote
RECURSIVE ScanPlain(_, _, _)
ScanPlain(s, i, acc) ==
  IF i > Len(s) THEN [err |-> "nil", val |-> acc, next |-> i, eor |-> TRUE]
  ELSE IF s[i] = COMMA
  THEN [err |-> "nil", val |-> acc, next |-> i + 1, eor |-> FALSE]
  ELSE IF s[i] = NL
  THEN [err |-> "nil", val |-> acc, next |-> i + 1, eor |-> TRUE]
  ELSE IF s[i] = QUOTE
  THEN [err |-> "ErrBareQuote", val |-> acc, next |-> i, eor |-> TRUE]
  ELSE ScanPlain(s, i + 1, Append(acc, s[i]))

\* csv.Reader: the body of a quoted field, i being just after the opening quote
RECURSIVE ScanQuoted(_, _, _)
ScanQuoted(s, i, acc) ==
  IF i > Len(s) THEN [err |-> "ErrQuote", val |-> acc, next |-> i, eor |-> TRUE]
  ELSE IF s[i] # QUOTE THEN ScanQuoted(s, i + 1, Append(acc, s[i]))
  ELSE IF i + 1 > Len(s)
  THEN [err |-> "nil", val |-> acc, next |-> i + 1, eor |-> TRUE]
  ELSE IF s[i + 1] = QUOTE THEN ScanQuoted(s, i + 2, Append(acc, QUOTE))
  ELSE IF s[i + 1] = COMMA
  THEN [err |-> "nil", val |-> acc, next |-> i + 2, eor |-> FALSE]
  ELSE IF s[i + 1] = NL
  THEN [err |-> "nil", val |-> acc, next |-> i + 2, eor |-> TRUE]
  ELSE [err |-> "ErrQuote", val |-> acc, next |-> i, eor |-> TRUE]

RECURSIVE ScanFields(_, _, _)
ScanFields(s, i, fields) ==
  LET f == IF i <= Len(s) /\ s[i] = QUOTE
           THEN ScanQuoted(s, i + 1, <<>>)
           ELSE ScanPlain(s, i, <<>>)
  IN IF f.err # "nil" THEN [err |-> f.err, record |-> <<>>, next |-> f.next]
     ELSE IF f.eor
     THEN [err |-> "nil", record |-> Append(fields, f.val), next |-> f.next]
     ELSE ScanFields(s, f.next, Append(fields, f.val))

RECURSIVE SkipEmptyLines(_, _)
SkipEmptyLines(s, i) ==
  IF i <= Len(s) /\ s[i] = NL THEN SkipEmptyLines(s, i + 1) ELSE i

\* csv.Reader.Read from byte i of s: the next record, or io.EOF
CsvRead(s, i) ==
  LET j == SkipEmptyLines(s, i)
  IN IF j > Len(s) THEN [err |-> "EOF", record |-> <<>>, next |-> j]
     ELSE ScanFields(s, j, <<>>)

\* csv.Reader.ReadAll from byte i of s, with FieldsPerRecord = 0: the first
\* record sets the number of fields every later record must have
RECURSIVE CsvReadAllFrom(_, _, _)
CsvReadAllFrom(s, i, records) ==
  LET r == CsvRead(s, i)
  IN IF r.err = "EOF" THEN [err |-> "nil", records |-> records]
     ELSE IF r.err # "nil" THEN [err |-> r.err, records |-> <<>>]
     ELSE IF records # <<>> /\ Len(r.record) # Len(records[1])
     THEN [err |-> "ErrFieldCount", records |-> <<>>]
     ELSE CsvReadAllFrom(s, r.next, Append(records, r.record))

CsvReadAll(s, i) == CsvReadAllFrom(s, i, <<>>)

(***************************************************************************)
(* The Csv backend: pure parts.  A file is its sequence of bytes; offsets  *)
(* are 0-based as in the code, indices of a sequence are 1-based.          *)
(***************************************************************************)
CsvVersion == 1

\* the offsets seekToHeader and seekToData seek to
HeaderOffset == 45
DataOffset == HeaderOffset + 31

\* fmt.Sprintf("# version: %03d, last-id: %019d\n", version, lastId)
FrontMatter(v, id) ==
  <<"#", " ", "v", "e", "r", "s", "i", "o", "n", ":", " ">> \o PadInt(v, 3)
  \o <<",", " ", "l", "a", "s", "t", "-", "i", "d", ":", " ">> \o PadInt(id, 19) \o <<NL>>

\* the same Sprintf on numbers given by their decimal digits, which reach
\* the 19 digits of the largest int64
FrontMatterOf(vd, idd) ==
  <<"#", " ", "v", "e", "r", "s", "i", "o", "n", ":", " ">> \o PadDigits(vd, 3)
  \o <<",", " ", "l", "a", "s", "t", "-", "i", "d", ":", " ">> \o PadDigits(idd, 19) \o <<NL>>

\* the record Migrate appends after the front matter
HeaderRecord ==
  <<<<"i", "d">>, <<"n", "a", "m", "e">>, <<"p", "r", "o", "j", "e", "c", "t">>, <<"t", "a", "g", "s">>, <<"s", "t", "a", "r", "t">>, <<"e", "n", "d">>>>

\* a byte of a hole that a write past the end of the file leaves
NUL == "\\0"

RECURSIVE Hole(_)
Hole(n) == IF n <= 0 THEN <<>> ELSE <<NUL>> \o Hole(n - 1)

\* f.Seek(pos, 0) and f.Write(data) on a file opened O_WRONLY without O_TRUNC:
\* the bytes under data are replaced, no byte beyond them is touched and the
\* file grows only when the write passes its end
WriteAt(f, pos, data) ==
  SubSeq(f, 1, pos) \o Hole(pos - Len(f)) \o data \o From(f, pos + Len(data) + 1)

\* the file after writeFrontMatter(v, id)
WriteFrontMatter(f, v, id) == WriteAt(f, 0, FrontMatter(v, id))

\* the file after appendRecord(record): O_APPEND puts the line at the end
AppendRecord(f, record) == f \o CsvWrite(record)

\* the file after writeBytes(pos, data)
WriteBytes(f, pos, data) == WriteAt(f, pos, data)

\* readAll(pos): every byte from offset pos to the end of the file
ReadAllBytes(f, pos) == From(f, pos + 1)

ActivityToRecord(a) ==
  <<FormatInt(a.Id), a.Name, a.Project, TagList(a),
    TimeFormat(a.Start), TimeFormat(a.End)>>

\* recordToActivity; indexing a record of fewer than six fields panics
RecordToActivity(record) ==
  LET id == ParseInt(record[1])
  IN IF ~id.ok THEN [err |-> "ErrSyntax", activity |-> NoActivity]
     ELSE IF Len(record) < 5 THEN [err |-> "panic", activity |-> NoActivity]
     ELSE LET start == TimeParse(record[5])
              half == [Id |-> id.val, Name |-> record[2], Project |-> record[3],
                       Tags |-> SetTagList(record[4]),
                       Start |-> start.t, End |-> ZeroTime]
          IN IF ~start.ok THEN [err |-> "ErrTime", activity |-> half]
             ELSE IF Len(record) < 6 THEN [err |-> "panic", activity |-> NoActivity]
             ELSE LET end == TimeParse(record[6])
                  IN IF ~end.ok THEN [err |-> "ErrTime", activity |-> half]
                     ELSE [err |-> "nil",
                           activity |-> [half EXCEPT !.End = end.t]]

\* findActivityLine from offset pos on: the id field is read up to the next
\* comma and the rest of the line up to the next newline
RECURSIVE FindLineFrom(_, _, _)
FindLineFrom(f, id, pos) ==
  LET c == IndexFrom(f, pos + 1, COMMA)
  IN IF c = 0 THEN [pos |-> pos, line |-> From(f, pos + 1), err |-> "EOF"]
     ELSE LET line == SubSeq(f, pos + 1, c)
              recordId == ParseInt(SubSeq(f, pos + 1, c - 1))
              n == IndexFrom(f, c + 1, NL)
          IN IF ~recordId.ok THEN [pos |-> pos, line |-> line, err |-> "ErrSyntax"]
             ELSE IF n = 0 THEN [pos |-> pos, line |-> line, err |-> "EOF"]
             ELSE IF recordId.val = id
             THEN [pos |-> pos, line |-> SubSeq(f, pos + 1, n), err |-> "nil"]
             ELSE FindLineFrom(f, id, n)

FindActivityLine(f, id) == FindLineFrom(f, id, DataOffset)

\* Csv.FindActivity: only io.EOF of the scan becomes ErrNotFound; after any
\* other outcome the bytes in line are handed to a csv.Reader
CsvFindActivity(f, id) ==
  LET l == FindActivityLine(f, id)
      r == CsvRead(l.line, 1)
  IN IF l.err = "EOF" THEN [err |-> "ErrNotFound", activity |-> NoActivity]
     ELSE IF r.err # "nil" THEN [err |-> r.err, activity |-> NoActivity]
     ELSE RecordToActivity(r.record)

\* the filter closures the queries pass to findActivities; nil passes all
NoFilter == [kind |-> "nil", lower |-> 0, upper |-> 0]

RunningFilter == [kind |-> "running", lower |-> 0, upper |-> 0]

BetweenFilter(lower, upper) ==
  [kind |-> "between", lower |-> lower, upper |-> upper]

\* filter == nil || filter(activity)
FilterPasses(filter, a) ==
  IF filter.kind = "nil" THEN TRUE
  ELSE IF filter.kind = "running" THEN IsRunning(a)
  ELSE /\ (a.Start.inst = filter.lower \/ a.Start.inst > filter.lower)
       /\ a.Start.inst < filter.upper

\* the loop of findActivities over the records ReadAll returned
RECURSIVE DecodeRecords(_, _, _)
DecodeRecords(records, filter, acc) ==
  IF records = <<>> THEN [err |-> "nil", activities |-> acc]
  ELSE LET d == RecordToActivity(Head(records))
       IN IF d.err # "nil" THEN [err |-> d.err, activities |-> acc]
          ELSE DecodeRecords(Tail(records), filter,
                             IF FilterPasses(filter, d.activity)
                             THEN Append(acc, d.activity)
                             ELSE acc)

CsvFindActivities(f, filter) ==
  LET all == CsvReadAll(f, DataOffset + 1)
  IN IF all.err # "nil" THEN [err |-> all.err, activities |-> <<>>]
     ELSE DecodeRecords(all.records, filter, <<>>)

CsvFindAllActivities(f) == CsvFindActivities(f, NoFilter)

CsvFindRunningActivities(f) == CsvFindActivities(f, RunningFilter)

CsvFindActivitiesBetween(f, lower, upper) ==
  CsvFindActivities(f, BetweenFilter(lower, upper))

\* readFrontMatter on a new Csv value: r.ReadString('\n') gives the first
\* line, or io.EOF with what there is when the file has no newline; an empty
\* file gives no error and leaves version and lastId 0; a line has to match
\* "^# version: (\d{3}), last-id: (\d{19})\n", the last id being within int64
ReadFrontMatter(f) ==
  LET n == IndexFrom(f, 1, NL)
      line == SubSeq(f, 1, n)
      v == SubSeq(line, 12, 14)
      id == SubSeq(line, 26, 44)
  IN IF f = <<>> THEN [err |-> "nil", version |-> 0, lastId |-> 0]
     ELSE IF n = 0 THEN [err |-> "EOF", version |-> 0, lastId |-> 0]
     ELSE IF /\ n = HeaderOffset
             /\ \A k \in 1..3 : IsDigit(v[k])
             /\ \A k \in 1..19 : IsDigit(id[k])
             /\ line = FrontMatter(DigitsValue(v, 0), DigitsValue(id, 0))
     THEN [err |-> "nil", version |-> DigitsValue(v, 0),
           lastId |-> DigitsValue(id, 0)]
     ELSE [err |-> "ErrBadFrontMatter", version |-> 0, lastId |-> 0]

\* Csv.Migrate from version 0 in which one write of step 0 fails with an I/O
\* error: writeFrontMatter, which then writes nothing, or appendRecord after
\* writeFrontMatter has written; db.version stays as it is
CsvMigrateFailing(f, v, point) ==
  IF point = "writeFrontMatter"
  THEN [err |-> "ErrIO", step |-> v, file |-> f, version |-> v]
  ELSE [err |-> "ErrIO", step |-> v, file |-> WriteFrontMatter(f, 1, 0),
        version |-> v]

\* Csv.Migrate whose step 0 leaves out the append of the header record
CsvMigratedNoHeader(f, v) ==
  IF v < CsvVersion
  THEN [file |-> WriteFrontMatter(f, 1, 0), version |-> v + 1]
  ELSE [file |-> f, version |-> v]

\* Csv.Migrate from in-memory version v: the file and the version afterwards
CsvMigrated(f, v) ==
  IF v < CsvVersion
  THEN [file |-> AppendRecord(WriteFrontMatter(f, 1, 0), HeaderRecord),
        version |-> v + 1]
  ELSE [file |-> f, version |-> v]

\* createActivity without the assignment db.lastId = activity.Id
CsvCreateActivityStaleLastId(f, v, last, a) ==
  LET id == last + 1
      record == ActivityToRecord([a EXCEPT !.Id = id])
  IN [err |-> "nil", id |-> id, lastId |-> last,
      file |-> WriteFrontMatter(AppendRecord(f, record), v, last)]

\* createActivity in which appendRecord returns an I/O error, from
\* os.OpenFile, before a byte is written: activity.Id is set back to 0 and
\* the function returns before db.lastId is assigned
CsvCreateActivityAppendFailing(f, v, last, a) ==
  [err |-> "ErrIO", id |-> 0, lastId |-> last, file |-> f]

\* createActivity in which writeFrontMatter returns an I/O error and writes
\* nothing: the line is appended, db.lastId and activity.Id are the new id
CsvCreateActivityFailing(f, v, last, a) ==
  LET id == last + 1
      record == ActivityToRecord([a EXCEPT !.Id = id])
  IN [err |-> "ErrIO", id |-> id, lastId |-> id,
      file |-> AppendRecord(f, record)]

\* createActivity: the id is lastId + 1, the line is appended and the front
\* matter rewritten with the new last id
CsvCreateActivity(f, v, last, a) ==
  LET id == last + 1
      record == ActivityToRecord([a EXCEPT !.Id = id])
  IN [err |-> "nil", id |-> id, lastId |-> id,
      file |-> WriteFrontMatter(AppendRecord(f, record), v, id)]

\* buf.ReadBytes('\n') on the encoded record: the bytes up to and including
\* the first newline
FirstLine(bytes) == SubSeq(bytes, 1, IndexFrom(bytes, 1, NL))

\* updateActivity; moved tells that the bytes after the line were rewritten
CsvUpdateActivity(f, a) ==
  LET l == FindActivityLine(f, a.Id)
      newLine == FirstLine(CsvWrite(ActivityToRecord(a)))
      data == ReadAllBytes(f, l.pos + Len(l.line))
  IN IF l.err # "nil" THEN [err |-> l.err, moved |-> FALSE, file |-> f]
     ELSE IF Len(l.line) = Len(newLine)
     THEN [err |-> "nil", moved |-> FALSE,
           file |-> WriteBytes(f, l.pos, newLine)]
     ELSE [err |-> "nil", moved |-> TRUE,
           file |-> WriteBytes(WriteBytes(f, l.pos, newLine),
                               l.pos + Len(newLine), data)]

\* Csv.DeleteActivity: the matched line is spliced out, the bytes after it
\* move back by its length; ErrNotFound when no line matches
CsvDeleteActivity(f, id) ==
  LET l == FindActivityLine(f, id)
  IN IF l.err # "nil" THEN [err |-> "ErrNotFound", file |-> f]
     ELSE [err |-> "nil",
           file |-> SubSeq(f, 1, l.pos) \o ReadAllBytes(f, l.pos + Len(l.line))]

(***************************************************************************)
(* The Sql backend on SQLite.  schema holds what Migrate builds: whether   *)
(* the table schema_info exists, the version in its row and whether the    *)
(* table activities exists.  table maps the id of every row of activities  *)
(* to the other columns of the row.                                         *)
(***************************************************************************)
SqlVersion == 2

NoSchema == [info |-> FALSE, version |-> 0, activities |-> FALSE]

EmptyTable == [i \in {} |-> NoActivity]

Max(S) == CHOOSE m \in S : \A x \in S : x <= m

Min(S) == CHOOSE m \in S : \A x \in S : m <= x

\* the rowid SQLite gives a row inserted without one into a table declared
\* with id INTEGER PRIMARY KEY (no AUTOINCREMENT): one more than the largest
\* rowid in the table, 1 in an empty table
NextRowId(t) == IF DOMAIN t = {} THEN 1 ELSE Max(DOMAIN t) + 1

RECURSIVE Ascending(_)
Ascending(S) ==
  IF S = {} THEN <<>> ELSE <<Min(S)>> \o Ascending(S \ {Min(S)})

\* one step of the loop of Sql.Migrate at version v
SqlMigrateStep(sc, v) ==
  IF v = 0
  THEN IF sc.info THEN [err |-> "ErrExec", schema |-> sc]
       ELSE [err |-> "nil", schema |-> [sc EXCEPT !.info = TRUE, !.version = 1]]
  ELSE IF sc.activities THEN [err |-> "ErrExec", schema |-> sc]
       ELSE [err |-> "nil",
             schema |-> [sc EXCEPT !.activities = TRUE, !.version = v + 1]]

RECURSIVE SqlMigrateFrom(_, _)
SqlMigrateFrom(sc, v) ==
  IF v >= SqlVersion THEN [err |-> "nil", schema |-> sc]
  ELSE LET step == SqlMigrateStep(sc, v)
       IN IF step.err # "nil" THEN step
          ELSE SqlMigrateFrom(step.schema, v + 1)

\* Sql.Version: SELECT version FROM schema_info; the Scan leaves 0 when it
\* fails
SqlStoredVersion(sc) == IF sc.info THEN sc.version ELSE 0

\* Sql.Migrate in which one exec fails with an I/O error: "schema_info" is
\* the CREATE TABLE of step 0, "insert" the INSERT of step 0 (the table then
\* exists without a row and the Scan of the version leaves 0), "activities"
\* the CREATE TABLE of step 1, reached after step 0 where that is still due.
\* An exec of a step before the failing one that SQLite refuses ends the
\* migration as in SqlMigrateFrom.
SqlMigrateFailing(sc, point) ==
  LET v == SqlStoredVersion(sc)
      s0 == IF v = 0 THEN SqlMigrateStep(sc, 0) ELSE [err |-> "nil", schema |-> sc]
  IN IF v = 0 /\ sc.info THEN [err |-> "ErrExec", step |-> 0, schema |-> sc]
     ELSE IF point = "schema_info"
     THEN [err |-> "ErrIO", step |-> 0, schema |-> sc]
     ELSE IF point = "insert"
     THEN [err |-> "ErrIO", step |-> 0,
           schema |-> [sc EXCEPT !.info = TRUE, !.version = 0]]
     ELSE IF s0.schema.activities
     THEN [err |-> "ErrExec", step |-> 1, schema |-> s0.schema]
     ELSE [err |-> "ErrIO", step |-> 1, schema |-> s0.schema]

\* Sql.Migrate that starts at step 0 whatever schema_info holds
SqlMigratedFromZero(sc) == SqlMigrateFrom(sc, 0)

\* Sql.Migrate: the version is read from schema_info, 0 when the Scan fails
SqlMigrated(sc) == SqlMigrateFrom(sc, IF sc.info THEN sc.version ELSE 0)

\* the columns SaveActivity binds: the times are normalized to UTC
SqlRow(a) ==
  [name |-> a.Name, project |-> a.Project, tags |-> TagList(a),
   start |-> TimeUTC(a.Start), end |-> TimeUTC(a.End)]

\* Sql.SaveActivity: INSERT for id 0, else UPDATE ... WHERE id = ?
SqlSaveActivity(t, a) ==
  IF a.Id = 0
  THEN LET id == NextRowId(t)
       IN [err |-> "nil", id |-> id, table |-> (id :> SqlRow(a)) @@ t]
  ELSE [err |-> "nil", id |-> a.Id,
        table |-> IF a.Id \in DOMAIN t THEN [t EXCEPT ![a.Id] = SqlRow(a)]
                  ELSE t]

\* the Activity findActivities builds from a scanned row
SqlActivity(id, row) ==
  [Id |-> id, Name |-> row.name, Project |-> row.project,
   Tags |-> SetTagList(row.tags),
   Start |-> TimeLocal(row.start), End |-> TimeLocal(row.end)]

\* the predicates the queries append to the SELECT, with their arguments
WhereId(id) == [kind |-> "id", arg |-> id]

WhereAll == [kind |-> "all", arg |-> 0]

WhereEndIs(t) == [kind |-> "end", arg |-> t]

WhereStartBetween(lower, upper) ==
  [kind |-> "between", arg |-> [lower |-> lower, upper |-> upper]]

\* whether the row with the id satisfies the predicate
RowMatches(where, id, row) ==
  IF where.kind = "id" THEN id = where.arg
  ELSE IF where.kind = "end" THEN row.end = where.arg
  ELSE IF where.kind = "between"
  THEN row.start.inst >= where.arg.lower /\ row.start.inst < where.arg.upper
  ELSE TRUE

\* Sql.findActivities; SQLite returns the rows of a plain scan in rowid order
SqlFindActivities(t, where) ==
  LET ids == Ascending({i \in DOMAIN t : RowMatches(where, i, t[i])})
  IN [err |-> "nil",
      activities |-> [k \in 1..Len(ids) |-> SqlActivity(ids[k], t[ids[k]])]]

SqlFindActivity(t, id) ==
  LET found == SqlFindActivities(t, WhereId(id))
  IN IF Len(found.activities) = 0
     THEN [err |-> "ErrNotFound", activity |-> NoActivity]
     ELSE [err |-> "nil", activity |-> found.activities[1]]

SqlFindAllActivities(t) == SqlFindActivities(t, WhereAll)

\* WHERE end IS ?, bound to the zero time
SqlFindRunningActivities(t) == SqlFindActivities(t, WhereEndIs(ZeroTime))

\* WHERE start >= ? AND start < ?, the timestamps compared as instants
SqlFindActivitiesBetween(t, lower, upper) ==
  SqlFindActivities(t, WhereStartBetween(lower, upper))

\* Sql.DeleteActivity: ErrNotFound unless exactly one row was affected
SqlDeleteActivity(t, id) ==
  LET n == IF id \in DOMAIN t THEN 1 ELSE 0
  IN [err |-> IF n # 1 THEN "ErrNotFound" ELSE "nil",
      table |-> [i \in DOMAIN t \ {id} |-> t[i]]]

(***************************************************************************)
(* What the callers pass in.                                                *)
(***************************************************************************)
Activity(name, project, tags, start, end) ==
  [Id |-> 0, Name |-> name, Project |-> project, Tags |-> tags,
   Start |-> start, End |-> end]

At(inst, off) == [inst |-> inst, off |-> off]

\* field values of the activities the callers save: a running and a stopped
\* activity, names of different lengths, a name with a comma, a name that is
\* a double quote, a name that is a newline, zero, one and two tags, times
\* in UTC and in the local zone
Templates ==
  { Activity(<<"a">>, <<"p">>, <<>>, At(1, 0), ZeroTime),
    Activity(<<"a", "b">>, <<"p">>, <<>>, At(2, 0), At(3, 0)),
    Activity(<<"a", COMMA>>, <<"p">>, << <<"t">>, <<"u">> >>, At(2, 1), At(0, 1)),
    Activity(<<QUOTE>>, <<"p">>, << <<"t">> >>, At(3, 0), At(4, 1)),
    Activity(<<NL>>, <<>>, <<>>, At(1, 0), At(2, 0)) }

\* the tags a caller gives: plain ones, the empty tag, tags with a comma or
\* a space at either end, and tags that hold the separator
TagInputs ==
  { <<>>, <<"t">>, <<"u">>, <<COMMA>>, <<SPACE>>, <<"t", COMMA>>,
    <<SPACE, "u">>, <<COMMA, SPACE>>, <<"t", COMMA, SPACE, "u">> }

\* the tag sequences of up to n tags
RECURSIVE TagSeqs(_)
TagSeqs(n) ==
  IF n = 0 THEN {<<>>}
  ELSE TagSeqs(n - 1)
         \cup {Append(ts, t) : ts \in {x \in TagSeqs(n - 1) : Len(x) = n - 1},
                               t \in TagInputs}

\* the instants a caller passes as lower and upper
Instants == 0..MaxInstant

\* the ids the callers ask for: every id a create can assign, one that is
\* never assigned, 0 and a negative id
IdInputs == (0 - 1)..(MaxCreates + 1)

(***************************************************************************)
(* State.                                                                   *)
(***************************************************************************)
VARIABLES
  backend,   \* "csv" or "sql": the backend main selects at startup
  file,      \* Csv: the bytes of the file
  version,   \* Csv.version
  lastId,    \* Csv.lastId
  schema,    \* Sql: schema_info and the existence of activities
  table,     \* Sql: the rows of activities
  saved,     \* history: id |-> the activity last saved under the id, for
             \* every id created and not deleted since
  created,   \* history: the ids the creates yielded, in order
  updates,   \* history: the number of updates so far
  last,      \* history: the operation that ran last, its id, its error and
             \* whether it rewrote the bytes after a line
  tagsIn,    \* the tag sequence given to TagList
  tagsOut,   \* what came back for tagsIn, and from which operation
  callers,   \* concurrent callers of one Csv value: for each the operation
             \* it runs, the function of csv.go it is at, whether it holds
             \* Csv.Mutex there, and its local variables
  mutex,     \* Csv.Mutex: the caller holding it for writing (0 for none) and
             \* the callers holding it for reading
  everSaved, \* history: every activity that was written to the file
  valid,     \* Csv.valid
  conns,     \* Sql: the connections sql.Open gave that are not closed yet
  cmd        \* the command that ran last: its name, its arguments, the id it
             \* reports, its error and, when it succeeded, what the clock
             \* gave it as now

vars ==
  <<backend, file, version, lastId, schema, table, saved, created, updates,
    last, tagsIn, tagsOut, callers, mutex, everSaved, valid, conns, cmd>>

tagVars == <<tagsIn, tagsOut>>

concVars == <<callers, mutex, everSaved>>

cmdVars == <<valid, conns, cmd>>

Callers == 1..NumCallers

\* a caller that has not called yet
Idle ==
  [op |-> "none", at |-> "idle", in |-> FALSE, stage |-> "none",
   act |-> NoActivity, id |-> 0, pos |-> 0, line |-> <<>>, newLine |-> <<>>,
   data |-> <<>>, args |-> 0, during |-> FALSE,
   res |-> [err |-> "nil", activities |-> <<>>]]

\* the zero value of sync.RWMutex
Unlocked == [writer |-> 0, readers |-> {}]

NoCalls ==
  /\ callers = [c \in Callers |-> Idle]
  /\ mutex = Unlocked
  /\ everSaved = {}

\* what the operations on the store leave alone
auxVars == <<tagVars, concVars, cmdVars>>

\* no command has run
NoCmd ==
  [name |-> "none", args |-> <<>>, now |-> 0, id |-> 0, err |-> "nil"]

\* NewCsv has returned without error and no command has run
Opened ==
  /\ valid = TRUE
  /\ conns = 0
  /\ cmd = NoCmd

NoTags == [op |-> "none", err |-> "nil", tags |-> <<>>]

csvVars == <<file, version, lastId>>

sqlVars == <<schema, table>>

Op(op, id, err) == [op |-> op, id |-> id, err |-> err, moved |-> FALSE]

Without(f, id) == [i \in DOMAIN f \ {id} |-> f[i]]

\* main migrates the store before it runs a command
Migrated ==
  IF backend = "csv" THEN version = CsvVersion
  ELSE schema.info /\ schema.version = SqlVersion

\* NewCsv on the empty file, or the Sql value on a new database
Init ==
  /\ backend \in {"csv", "sql"}
  /\ file = <<>>
  /\ version = 0
  /\ lastId = 0
  /\ schema = NoSchema
  /\ table = EmptyTable
  /\ saved = EmptyTable
  /\ created = <<>>
  /\ updates = 0
  /\ last = Op("new", 0, "nil")
  /\ tagsIn = <<>>
  /\ tagsOut = NoTags
  /\ NoCalls
  /\ Opened

(***************************************************************************)
(* Operations of the Csv backend.                                           *)
(***************************************************************************)
CsvMigrate ==
  /\ backend = "csv"
  /\ LET m == CsvMigrated(file, version)
     IN /\ file' = m.file
        /\ version' = m.version
  /\ last' = Op("migrate", 0, "nil")
  /\ UNCHANGED <<auxVars, backend, lastId, sqlVars, saved, created, updates>>

\* SaveActivity on an activity with id 0
CsvCreate ==
  /\ backend = "csv"
  /\ Migrated
  /\ Len(created) < MaxCreates
  /\ \E t \in Templates :
       LET r == CsvCreateActivity(file, version, lastId, t)
       IN /\ file' = r.file
          /\ lastId' = r.lastId
          /\ saved' = (r.id :> [t EXCEPT !.Id = r.id]) @@ saved
          /\ created' = Append(created, r.id)
          /\ last' = Op("create", r.id, r.err)
  /\ UNCHANGED <<auxVars, backend, version, sqlVars, updates>>

\* SaveActivity on an activity with an id above 0
CsvUpdate ==
  /\ backend = "csv"
  /\ Migrated
  /\ updates < MaxUpdates
  /\ updates' = updates + 1
  /\ \E t \in Templates, id \in 1..(MaxCreates + 1) :
       LET a == [t EXCEPT !.Id = id]
           r == CsvUpdateActivity(file, a)
       IN /\ file' = r.file
          /\ saved' = IF r.err = "nil" /\ id \in DOMAIN saved
                      THEN [saved EXCEPT ![id] = a] ELSE saved
          /\ last' = [Op("update", id, r.err) EXCEPT !.moved = r.moved]
  /\ UNCHANGED <<auxVars, backend, version, lastId, sqlVars, created>>

CsvDelete ==
  /\ backend = "csv"
  /\ Migrated
  /\ \E id \in IdInputs :
       LET r == CsvDeleteActivity(file, id)
       IN /\ file' = r.file
          /\ saved' = IF r.err = "nil" THEN Without(saved, id) ELSE saved
          /\ last' = Op("delete", id, r.err)
  /\ UNCHANGED <<auxVars, backend, version, lastId, sqlVars, created, updates>>

(***************************************************************************)
(* Operations of the Sql backend.                                           *)
(***************************************************************************)
SqlMigrate ==
  /\ backend = "sql"
  /\ LET m == SqlMigrated(schema)
     IN /\ schema' = m.schema
        /\ last' = Op("migrate", 0, m.err)
  /\ UNCHANGED <<auxVars, backend, csvVars, table, saved, created, updates>>

SqlCreate ==
  /\ backend = "sql"
  /\ Migrated
  /\ Len(created) < MaxCreates
  /\ \E t \in Templates :
       LET r == SqlSaveActivity(table, t)
       IN /\ table' = r.table
          /\ saved' = (r.id :> [t EXCEPT !.Id = r.id]) @@ saved
          /\ created' = Append(created, r.id)
          /\ last' = Op("create", r.id, r.err)
  /\ UNCHANGED <<auxVars, backend, csvVars, schema, updates>>

SqlUpdate ==
  /\ backend = "sql"
  /\ Migrated
  /\ updates < MaxUpdates
  /\ updates' = updates + 1
  /\ \E t \in Templates, id \in 1..(MaxCreates + 1) :
       LET a == [t EXCEPT !.Id = id]
           r == SqlSaveActivity(table, a)
       IN /\ table' = r.table
          /\ saved' = IF r.err = "nil" /\ id \in DOMAIN saved
                      THEN [saved EXCEPT ![id] = a] ELSE saved
          /\ last' = Op("update", id, r.err)
  /\ UNCHANGED <<auxVars, backend, csvVars, schema, created>>

SqlDelete ==
  /\ backend = "sql"
  /\ Migrated
  /\ \E id \in IdInputs :
       LET r == SqlDeleteActivity(table, id)
       IN /\ table' = r.table
          /\ saved' = IF r.err = "nil" THEN Without(saved, id) ELSE saved
          /\ last' = Op("delete", id, r.err)
  /\ UNCHANGED <<auxVars, backend, csvVars, schema, created, updates>>

(***************************************************************************)
(* The tag list: TagList and SetTagList applied to the tags a caller gives, *)
(* and a stopped activity with these tags saved into a new store and found *)
(* again.                                                                   *)
(***************************************************************************)
Tagged(tags) == Activity(<<"a">>, <<"p">>, tags, At(1, 0), At(2, 0))

\* the tags FindActivity(1) returns after Migrate and SaveActivity on a new
\* store of backend b
SavedAndFound(b, tags) ==
  LET found ==
        IF b = "csv"
        THEN LET m == CsvMigrated(<<>>, 0)
                 r == CsvCreateActivity(m.file, m.version, 0, Tagged(tags))
             IN CsvFindActivity(r.file, r.id)
        ELSE LET r == SqlSaveActivity(EmptyTable, Tagged(tags))
             IN SqlFindActivity(r.table, r.id)
  IN [op |-> b, err |-> found.err, tags |-> found.activity.Tags]

InitTags ==
  /\ backend = "csv"
  /\ file = <<>>
  /\ version = 0
  /\ lastId = 0
  /\ schema = NoSchema
  /\ table = EmptyTable
  /\ saved = EmptyTable
  /\ created = <<>>
  /\ updates = 0
  /\ last = Op("new", 0, "nil")
  /\ tagsIn \in TagSeqs(MaxTags)
  /\ tagsOut = NoTags
  /\ NoCalls
  /\ Opened

\* a.SetTagList(a.TagList())
TagsRoundTrip ==
  /\ tagsOut = NoTags
  /\ tagsOut' = [op |-> "roundtrip", err |-> "nil",
                 tags |-> SetTagList(TagList(Tagged(tagsIn)))]
  /\ UNCHANGED <<tagsIn, concVars, cmdVars, backend, csvVars, sqlVars, saved,
                 created, updates, last>>

\* a.SetTagList("")
TagsFromEmpty ==
  /\ tagsOut = NoTags
  /\ tagsOut' = [op |-> "empty", err |-> "nil", tags |-> SetTagList(<<>>)]
  /\ UNCHANGED <<tagsIn, concVars, cmdVars, backend, csvVars, sqlVars, saved,
                 created, updates, last>>

\* SaveActivity and FindActivity on either backend
TagsSaveFind ==
  /\ tagsOut = NoTags
  /\ \E b \in {"csv", "sql"} : tagsOut' = SavedAndFound(b, tagsIn)
  /\ UNCHANGED <<tagsIn, concVars, cmdVars, backend, csvVars, sqlVars, saved,
                 created, updates, last>>

NextTags ==
  \/ TagsRoundTrip
  \/ TagsFromEmpty
  \/ TagsSaveFind

SpecTags == InitTags /\ [][NextTags]_vars

(***************************************************************************)
(* Concurrent callers of one Csv value.  Every function of csv.go that     *)
(* opens the file takes Csv.Mutex on entry and releases it on return: a    *)
(* caller is at such a function from the call to the return and in it      *)
(* while it holds the mutex.  What a function does to the file happens in  *)
(* one step, under the mutex.  db.lastId is read and written outside the   *)
(* mutex, each access a step of its own.  A caller blocked in Lock or      *)
(* RLock is a caller that has not got the mutex yet.                        *)
(***************************************************************************)
\* the functions that take Mutex.RLock
ReadFns == {"findActivityLine", "readAll", "findActivities"}

\* the functions that take Mutex.Lock
WriteFns == {"appendRecord", "writeBytes", "writeFrontMatter"}

\* Mutex.Lock returns although callers hold the mutex for reading
CanLockBesideReaders(m) == m.writer = 0

\* Mutex.Lock returns once no caller holds the mutex
CanLock(m) == m.writer = 0 /\ m.readers = {}

\* Mutex.RLock returns once no caller holds the mutex for writing
CanRLock(m) == m.writer = 0

Unlock(m) == [m EXCEPT !.writer = 0]

\* a helper that returns without RUnlock
RUnlockKept(m, c) == m

RUnlock(m, c) == [m EXCEPT !.readers = @ \ {c}]

\* the activities the concurrent callers work with, by the length of their
\* lines: 13, 22 and 32 bytes with an id of one digit
Short == Activity(<<"a">>, <<"p">>, <<>>, At(1, 0), ZeroTime)

Middle == Activity(<<QUOTE>>, <<"p">>, << <<"t">> >>, At(3, 0), At(4, 1))

Long ==
  Activity(<<"a", COMMA>>, <<"p">>, << <<"t">>, <<"u">> >>, At(2, 1), At(0, 1))

\* the store after Migrate, SaveActivity(Middle) and SaveActivity(Short)
TwoRecords ==
  LET m == CsvMigrated(<<>>, 0)
      r == CsvCreateActivity(m.file, m.version, 0, Middle)
  IN CsvCreateActivity(r.file, m.version, r.lastId, Short)

\* the updates the callers make: record 1 to a longer and to a shorter
\* line, record 2 to a line of the same length
ConcUpdates ==
  {[Long EXCEPT !.Id = 1], [Short EXCEPT !.Id = 1], [Short EXCEPT !.Id = 2]}

InitConc ==
  /\ backend = "csv"
  /\ file = TwoRecords.file
  /\ version = CsvVersion
  /\ lastId = TwoRecords.lastId
  /\ schema = NoSchema
  /\ table = EmptyTable
  /\ saved = (1 :> [Middle EXCEPT !.Id = 1]) @@ (2 :> [Short EXCEPT !.Id = 2])
  /\ created = <<1, 2>>
  /\ updates = 0
  /\ last = Op("create", 2, "nil")
  /\ tagsIn = <<>>
  /\ tagsOut = NoTags
  /\ callers = [c \in Callers |-> Idle]
  /\ mutex = Unlocked
  /\ everSaved = {[Middle EXCEPT !.Id = 1], [Short EXCEPT !.Id = 2]}
  /\ Opened

\* what no step of a concurrent caller changes
concFixed ==
  <<backend, version, sqlVars, saved, updates, last, tagVars, cmdVars>>

\* another caller is in the middle of an update that moves the bytes after
\* its line
Relocating(c) ==
  \E d \in Callers \ {c} :
    callers[d].stage \in {"relocate", "newline", "tail"}

\* SaveActivity on an activity with id 0: createActivity reads db.lastId
CallCreate(c) ==
  /\ callers[c].at = "idle"
  /\ callers' = [callers EXCEPT ![c] =
                   [Idle EXCEPT !.op = "create", !.at = "appendRecord",
                                !.id = lastId + 1,
                                !.act = [Short EXCEPT !.Id = lastId + 1]]]
  /\ UNCHANGED <<concFixed, file, lastId, created, mutex, everSaved>>

\* SaveActivity on an activity with an id above 0
CallUpdate(c) ==
  /\ callers[c].at = "idle"
  /\ \E a \in ConcUpdates :
       callers' = [callers EXCEPT ![c] =
                     [Idle EXCEPT !.op = "update", !.at = "findActivityLine",
                                  !.id = a.Id, !.act = a]]
  /\ UNCHANGED <<concFixed, file, lastId, created, mutex, everSaved>>

\* FindActivity(2)
CallFind(c) ==
  /\ callers[c].at = "idle"
  /\ callers' = [callers EXCEPT ![c] =
                   [Idle EXCEPT !.op = "find", !.at = "findActivityLine",
                                !.id = 2]]
  /\ UNCHANGED <<concFixed, file, lastId, created, mutex, everSaved>>

\* FindAllActivities
CallFindAll(c) ==
  /\ callers[c].at = "idle"
  /\ callers' = [callers EXCEPT ![c] =
                   [Idle EXCEPT !.op = "findAll", !.at = "findActivities"]]
  /\ UNCHANGED <<concFixed, file, lastId, created, mutex, everSaved>>

\* db.Mutex.Lock() at the top of a writing function
Lock(c) ==
  /\ callers[c].at \in WriteFns
  /\ ~callers[c].in
  /\ CanLock(mutex)
  /\ mutex' = [mutex EXCEPT !.writer = c]
  /\ callers' = [callers EXCEPT ![c].in = TRUE]
  /\ UNCHANGED <<concFixed, file, lastId, created, everSaved>>

\* db.Mutex.RLock() at the top of a reading function
RLock(c) ==
  /\ callers[c].at \in ReadFns
  /\ ~callers[c].in
  /\ CanRLock(mutex)
  /\ mutex' = [mutex EXCEPT !.readers = @ \cup {c}]
  /\ callers' = [callers EXCEPT ![c].in = TRUE]
  /\ UNCHANGED <<concFixed, file, lastId, created, everSaved>>

\* the operation of the caller returns
Done(cl, res) ==
  [cl EXCEPT !.at = "done", !.in = FALSE, !.stage = "none", !.res = res]

NoResult(err) == [err |-> err, activities |-> <<>>]

\* appendRecord writes the line of the new activity and returns
AppendRecordReturns(c) ==
  /\ callers[c].at = "appendRecord"
  /\ callers[c].in
  /\ file' = AppendRecord(file, ActivityToRecord(callers[c].act))
  /\ mutex' = Unlock(mutex)
  /\ callers' = [callers EXCEPT ![c].at = "setLastId", ![c].in = FALSE]
  /\ created' = Append(created, callers[c].id)
  /\ everSaved' = everSaved \cup {callers[c].act}
  /\ UNCHANGED <<concFixed, lastId>>

\* db.lastId = activity.Id
SetLastId(c) ==
  /\ callers[c].at = "setLastId"
  /\ lastId' = callers[c].id
  /\ callers' = [callers EXCEPT ![c].at = "frontMatterArgs"]
  /\ UNCHANGED <<concFixed, file, created, mutex, everSaved>>

\* the arguments of db.writeFrontMatter(db.version, db.lastId) are read
FrontMatterArgs(c) ==
  /\ callers[c].at = "frontMatterArgs"
  /\ callers' = [callers EXCEPT ![c].at = "writeFrontMatter",
                                ![c].args = lastId]
  /\ UNCHANGED <<concFixed, file, lastId, created, mutex, everSaved>>

\* writeFrontMatter writes and returns, and with it createActivity
WriteFrontMatterReturns(c) ==
  /\ callers[c].at = "writeFrontMatter"
  /\ callers[c].in
  /\ file' = WriteFrontMatter(file, version, callers[c].args)
  /\ mutex' = Unlock(mutex)
  /\ callers' = [callers EXCEPT ![c] = Done(@, NoResult("nil"))]
  /\ UNCHANGED <<concFixed, lastId, created, everSaved>>

\* findActivityLine returns to FindActivity, which decodes the line, or to
\* updateActivity, which encodes the new line and compares the lengths
FindActivityLineReturns(c) ==
  /\ callers[c].at = "findActivityLine"
  /\ callers[c].in
  /\ callers[c].op \in {"find", "update"}
  /\ mutex' = RUnlock(mutex, c)
  /\ LET l == FindActivityLine(file, callers[c].id)
         found == CsvFindActivity(file, callers[c].id)
         newLine == FirstLine(CsvWrite(ActivityToRecord(callers[c].act)))
     IN callers' = [callers EXCEPT ![c] =
          IF @.op = "find"
          THEN [Done(@, [err |-> found.err,
                         activities |-> IF found.err = "nil"
                                        THEN <<found.activity>> ELSE <<>>])
                  EXCEPT !.during = Relocating(c)]
          ELSE IF l.err # "nil" THEN Done(@, NoResult(l.err))
          ELSE [@ EXCEPT !.in = FALSE, !.pos = l.pos, !.line = l.line,
                         !.newLine = newLine,
                         !.at = IF Len(l.line) = Len(newLine)
                                THEN "writeBytes" ELSE "readAll",
                         !.stage = IF Len(l.line) = Len(newLine)
                                   THEN "inplace" ELSE "relocate"]]
  /\ UNCHANGED <<concFixed, file, lastId, created, everSaved>>

\* readAll returns the bytes after the old line
ReadAllReturns(c) ==
  /\ callers[c].at = "readAll"
  /\ callers[c].in
  /\ mutex' = RUnlock(mutex, c)
  /\ callers' = [callers EXCEPT
                   ![c].data = ReadAllBytes(file, callers[c].pos
                                                    + Len(callers[c].line)),
                   ![c].in = FALSE,
                   ![c].at = "writeBytes",
                   ![c].stage = "newline"]
  /\ UNCHANGED <<concFixed, file, lastId, created, everSaved>>

\* writeBytes writes and returns: the new line over the old one, the new
\* line before the tail is put back, or the tail
WriteBytesReturns(c) ==
  /\ callers[c].at = "writeBytes"
  /\ callers[c].in
  /\ mutex' = Unlock(mutex)
  /\ LET cl == callers[c]
     IN IF cl.stage = "tail"
        THEN /\ file' = WriteBytes(file, cl.pos + Len(cl.newLine), cl.data)
             /\ callers' = [callers EXCEPT ![c] = Done(@, NoResult("nil"))]
             /\ UNCHANGED everSaved
        ELSE /\ file' = WriteBytes(file, cl.pos, cl.newLine)
             /\ callers' = [callers EXCEPT ![c] =
                              IF cl.stage = "inplace"
                              THEN Done(@, NoResult("nil"))
                              ELSE [@ EXCEPT !.in = FALSE, !.stage = "tail"]]
             /\ everSaved' = everSaved \cup {cl.act}
  /\ UNCHANGED <<concFixed, lastId, created>>

\* findActivities reads and decodes the data region and returns
FindActivitiesReturns(c) ==
  /\ callers[c].at = "findActivities"
  /\ callers[c].in
  /\ mutex' = RUnlock(mutex, c)
  /\ callers' = [callers EXCEPT ![c] =
                   [Done(@, CsvFindAllActivities(file))
                      EXCEPT !.during = Relocating(c)]]
  /\ UNCHANGED <<concFixed, file, lastId, created, everSaved>>

NextConc ==
  \E c \in Callers :
    \/ CallCreate(c)
    \/ CallUpdate(c)
    \/ CallFind(c)
    \/ CallFindAll(c)
    \/ Lock(c)
    \/ RLock(c)
    \/ AppendRecordReturns(c)
    \/ SetLastId(c)
    \/ FrontMatterArgs(c)
    \/ WriteFrontMatterReturns(c)
    \/ FindActivityLineReturns(c)
    \/ ReadAllReturns(c)
    \/ WriteBytesReturns(c)
    \/ FindActivitiesReturns(c)

SpecConc == InitConc /\ [][NextConc]_vars

\* Migrate on a store that is at CsvVersion: the loop is not entered and no
\* helper is called
CallMigrate(c) ==
  /\ callers[c].at = "idle"
  /\ version = CsvVersion
  /\ callers' = [callers EXCEPT ![c] =
                   Done([Idle EXCEPT !.op = "migrate"], NoResult("nil"))]
  /\ UNCHANGED <<concFixed, file, lastId, created, mutex, everSaved>>

\* DeleteActivity(id) for the id of one of the two records
CallDelete(c) ==
  /\ callers[c].at = "idle"
  /\ \E id \in {1, 2} :
       callers' = [callers EXCEPT ![c] =
                     [Idle EXCEPT !.op = "delete", !.at = "findActivityLine",
                                  !.id = id]]
  /\ UNCHANGED <<concFixed, file, lastId, created, mutex, everSaved>>

\* findActivityLine returns to DeleteActivity, which goes on as an update
\* that relocates, with no bytes for the line
DeleteLineReturns(c) ==
  /\ callers[c].at = "findActivityLine"
  /\ callers[c].in
  /\ callers[c].op = "delete"
  /\ mutex' = RUnlock(mutex, c)
  /\ LET l == FindActivityLine(file, callers[c].id)
     IN callers' = [callers EXCEPT ![c] =
          IF l.err # "nil" THEN Done(@, NoResult("ErrNotFound"))
          ELSE [@ EXCEPT !.in = FALSE, !.pos = l.pos, !.line = l.line,
                         !.newLine = <<>>, !.at = "readAll",
                         !.stage = "relocate"]]
  /\ UNCHANGED <<concFixed, file, lastId, created, everSaved>>

\* a call of the caller that has begun goes on: it takes the mutex when the
\* mutex lets it, and the writing helper or readAll it is in returns
Proceed(c) ==
  \/ Lock(c)
  \/ RLock(c)
  \/ AppendRecordReturns(c)
  \/ SetLastId(c)
  \/ FrontMatterArgs(c)
  \/ WriteFrontMatterReturns(c)
  \/ ReadAllReturns(c)
  \/ WriteBytesReturns(c)

\* findActivityLine or findActivities returns
ScanReturns(c) ==
  \/ FindActivityLineReturns(c)
  \/ DeleteLineReturns(c)
  \/ FindActivitiesReturns(c)

\* the caller is inside findActivityLine or findActivities, past RLock: the
\* states in which ScanReturns(c) is enabled
Scanning(c) ==
  /\ callers[c].at \in {"findActivityLine", "findActivities"}
  /\ callers[c].in

NextLive ==
  \/ NextConc
  \/ \E c \in Callers : CallMigrate(c)
  \/ \E c \in Callers : CallDelete(c)
  \/ \E c \in Callers : DeleteLineReturns(c)

\* every goroutine that can run is scheduled: weak fairness of the steps of
\* each caller.  For ScanReturns(c) weak fairness is written out, with
\* Scanning(c) for ENABLED <<ScanReturns(c)>>_vars.
SpecLive ==
  /\ InitConc
  /\ [][NextLive]_vars
  /\ \A c \in Callers : WF_vars(Proceed(c))
  /\ \A c \in Callers :
       []<>(~Scanning(c)) \/ []<><<ScanReturns(c)>>_vars

(***************************************************************************)
(* Migrations that fail, and the next start of the program.  For a Migrate *)
(* that fails, last.id is the step that failed.                             *)
(***************************************************************************)
CsvMigrateFails ==
  /\ backend = "csv"
  /\ version < CsvVersion
  /\ \E point \in {"writeFrontMatter", "appendRecord"} :
       LET m == CsvMigrateFailing(file, version, point)
       IN /\ file' = m.file
          /\ version' = m.version
          /\ last' = Op("migrate", m.step, m.err)
  /\ UNCHANGED <<auxVars, backend, lastId, sqlVars, saved, created, updates>>

\* NewCsv on the file as it is, in the next run of the program
CsvOpen ==
  /\ backend = "csv"
  /\ LET r == ReadFrontMatter(file)
     IN /\ version' = r.version
        /\ lastId' = r.lastId
        /\ valid' = (r.err = "nil")
        /\ last' = Op("open", 0, r.err)
  /\ UNCHANGED <<tagVars, concVars, conns, cmd, backend, file, sqlVars,
                 saved, created, updates>>

SqlMigrateFails ==
  /\ backend = "sql"
  /\ \E point \in {"schema_info", "insert", "activities"} :
       /\ SqlStoredVersion(schema)
            < (IF point = "activities" THEN SqlVersion ELSE 1)
       /\ LET m == SqlMigrateFailing(schema, point)
          IN /\ schema' = m.schema
             /\ last' = Op("migrate", m.step, m.err)
  /\ UNCHANGED <<auxVars, backend, csvVars, table, saved, created, updates>>

\* SaveActivity on an activity with id 0 in which the rewrite of the front
\* matter fails after the append
CsvCreateFails ==
  /\ backend = "csv"
  /\ Migrated
  /\ Len(created) < MaxCreates
  /\ \E t \in Templates :
       LET r == CsvCreateActivityFailing(file, version, lastId, t)
       IN /\ file' = r.file
          /\ lastId' = r.lastId
          /\ saved' = (r.id :> [t EXCEPT !.Id = r.id]) @@ saved
          /\ created' = Append(created, r.id)
          /\ last' = Op("create", r.id, r.err)
  /\ UNCHANGED <<auxVars, backend, version, sqlVars, updates>>

\* SaveActivity on an activity with id 0 in which the append fails; the
\* history keeps the id createActivity had computed and the creates so far
CsvCreateAppendFails ==
  /\ backend = "csv"
  /\ Migrated
  /\ Len(created) < MaxCreates
  /\ cmd.name = "none"
  /\ \E t \in Templates :
       LET r == CsvCreateActivityAppendFailing(file, version, lastId, t)
       IN /\ file' = r.file
          /\ lastId' = r.lastId
          /\ last' = Op("create", r.id, r.err)
          /\ cmd' = [NoCmd EXCEPT !.name = "createActivity",
                                  !.args = created,
                                  !.id = lastId + 1, !.err = r.err]
  /\ UNCHANGED <<tagVars, concVars, valid, conns, backend, version, sqlVars,
                 saved, created, updates>>

NextFaults ==
  \/ CsvMigrate
  \/ CsvMigrateFails
  \/ CsvOpen
  \/ CsvCreate
  \/ CsvCreateFails
  \/ CsvCreateAppendFails
  \/ SqlMigrate
  \/ SqlMigrateFails
  \/ SqlCreate

SpecFaults == Init /\ [][NextFaults]_vars

(***************************************************************************)
(* NewCsv on the files a start of the program can meet.                    *)
(***************************************************************************)
\* the versions and last ids in the front matter of these files
MaxFileVersion == 2

MaxFileLastId == 3

\* what follows the first line: nothing, the header line, the header line
\* and a record line
FileRests ==
  { <<>>,
    CsvWrite(HeaderRecord),
    CsvWrite(HeaderRecord) \o CsvWrite(ActivityToRecord([Short EXCEPT !.Id = 1])) }

\* the line with byte b at index p
Patched(line, p, b) == [line EXCEPT ![p] = b]

\* first lines that are no front matter: one that stops before its newline,
\* a front matter one byte short or one byte long, and a front matter with
\* one byte replaced in the marker, the version, the separator, the last id
\* or the newline
BadFirstLines ==
  LET fm == FrontMatter(1, 2)
  IN {<<"x">>, <<NL>>, Tail(fm), <<"0">> \o fm, SubSeq(fm, 1, HeaderOffset - 1)}
       \cup {Patched(fm, p, b) : p \in {1, 12, 14, 15, 26, 44, 45},
                                 b \in {"x", SPACE}}

OpenFiles ==
  {<<>>}
    \cup {FrontMatter(v, id) \o rest :
            v \in 0..MaxFileVersion, id \in 0..MaxFileLastId,
            rest \in FileRests}
    \cup {line \o rest : line \in BadFirstLines, rest \in FileRests}

\* the state before NewCsv: the fields of the Csv value are zero
InitOpen ==
  /\ backend = "csv"
  /\ file \in OpenFiles
  /\ version = 0
  /\ lastId = 0
  /\ schema = NoSchema
  /\ table = EmptyTable
  /\ saved = EmptyTable
  /\ created = <<>>
  /\ updates = 0
  /\ last = Op("none", 0, "nil")
  /\ tagsIn = <<>>
  /\ tagsOut = NoTags
  /\ NoCalls
  /\ valid = FALSE
  /\ conns = 0
  /\ cmd = NoCmd

NextOpen == CsvOpen

SpecOpen == InitOpen /\ [][NextOpen]_vars

(***************************************************************************)
(* writeFrontMatter over the range of its arguments.                        *)
(***************************************************************************)
\* math.MaxInt64 in decimal
MaxInt64 ==
  <<"9", "2", "2", "3", "3", "7", "2", "0", "3", "6", "8", "5", "4", "7", "7",
    "5", "8", "0", "7">>

\* versions of one, two and three digits, up to 999
FmVersions == {FormatNat(v) : v \in {0, 1, 9, 10, 99, 100, 999}}

\* last ids from 0 to the largest int64
FmLastIds == {FormatNat(id) : id \in {0, 1, 10, 2147483647}} \cup {MaxInt64}

\* the files writeFrontMatter meets: empty, shorter than a front matter, a
\* front matter alone, with a cut header line, with the header line, and
\* with a record line
FmFiles ==
  { <<>>,
    <<"#", " ", "v">>,
    FrontMatter(1, 0),
    FrontMatter(1, 0) \o <<"i", "d">>,
    FrontMatter(1, 0) \o CsvWrite(HeaderRecord),
    FrontMatter(1, 1) \o CsvWrite(HeaderRecord)
      \o CsvWrite(ActivityToRecord([Short EXCEPT !.Id = 1])) }

InitFm ==
  /\ backend = "csv"
  /\ file \in FmFiles
  /\ version = 0
  /\ lastId = 0
  /\ schema = NoSchema
  /\ table = EmptyTable
  /\ saved = EmptyTable
  /\ created = <<>>
  /\ updates = 0
  /\ last = Op("none", 0, "nil")
  /\ tagsIn = <<>>
  /\ tagsOut = NoTags
  /\ NoCalls
  /\ valid = TRUE
  /\ conns = 0
  /\ cmd = NoCmd

\* db.writeFrontMatter(version, lastId); the fields of db stay as they are
CsvWriteFrontMatter ==
  /\ backend = "csv"
  /\ \E vd \in FmVersions, idd \in FmLastIds :
       /\ file' = WriteAt(file, 0, FrontMatterOf(vd, idd))
       /\ cmd' = [NoCmd EXCEPT !.name = "writeFrontMatter", !.args = <<vd, idd>>]
  /\ last' = Op("writeFrontMatter", 0, "nil")
  /\ UNCHANGED <<tagVars, concVars, valid, conns, backend, version, lastId,
                 sqlVars, saved, created, updates>>

NextFm == CsvWriteFrontMatter

SpecFm == InitFm /\ [][NextFm]_vars

(***************************************************************************)
(* The loop of Sql.findActivities over a result set, and DatabaseErrors.    *)
(***************************************************************************)
\* the rows of the result sets
MaxRows == 3

\* DatabaseErrors.Error(): strings.Join(e.Errors, "; ")
ErrorsMessage(errors) == Join(errors, <<";", SPACE>>)

\* what findActivities returns: nil when no error was appended, else the
\* DatabaseErrors value
Returned(activities, errors) ==
  [activities |-> activities, nil |-> errors = <<>>, errors |-> errors,
   message |-> ErrorsMessage(errors)]

\* for rows.Next() { ... } that returns at the first row rows.Scan fails on
RECURSIVE DrainRowsStopping(_, _, _)
DrainRowsStopping(rows, activities, errors) ==
  IF rows = <<>> THEN [activities |-> activities, errors |-> errors]
  ELSE IF Head(rows).scanErr = <<>>
  THEN DrainRowsStopping(Tail(rows), Append(activities, Head(rows).id), errors)
  ELSE [activities |-> activities,
        errors |-> Append(errors, Head(rows).scanErr)]

\* for rows.Next() { ... }: a row rows.Scan decodes is appended to the
\* activities, the error of one it fails on to the errors
RECURSIVE DrainRows(_, _, _)
DrainRows(rows, activities, errors) ==
  IF rows = <<>> THEN [activities |-> activities, errors |-> errors]
  ELSE IF Head(rows).scanErr = <<>>
  THEN DrainRows(Tail(rows), Append(activities, Head(rows).id), errors)
  ELSE DrainRows(Tail(rows), activities, Append(errors, Head(rows).scanErr))

\* Sql.findActivities after sql.Open: the query, the loop, conn.Close
SqlFindActivitiesOn(queryErr, rows, closeErr) ==
  LET drained == IF queryErr # <<>>
                 THEN [activities |-> <<>>, errors |-> <<queryErr>>]
                 ELSE DrainRows(rows, <<>>, <<>>)
      errors == IF closeErr # <<>> THEN Append(drained.errors, closeErr)
                ELSE drained.errors
  IN Returned(drained.activities, errors)

\* the errors rows.Scan gives (none is the empty message), and those of
\* conn.Query and conn.Close
ScanErrors == {<<>>, <<"e", "1">>, <<"e", "2">>}

QueryErrors == {<<>>, <<"q">>}

CloseErrors == {<<>>, <<"c">>}

RECURSIVE ResultSets(_)
ResultSets(n) ==
  IF n = 0 THEN {<<>>}
  ELSE LET shorter == ResultSets(n - 1)
       IN shorter \cup
            {Append(rows, [id |-> Len(rows) + 1, scanErr |-> e]) :
               rows \in {r \in shorter : Len(r) = n - 1}, e \in ScanErrors}

\* a call of findActivities that is about to run: what the driver will give
InitScan ==
  /\ backend = "sql"
  /\ file = <<>>
  /\ version = 0
  /\ lastId = 0
  /\ schema = NoSchema
  /\ table = EmptyTable
  /\ saved = EmptyTable
  /\ created = <<>>
  /\ updates = 0
  /\ last = Op("none", 0, "nil")
  /\ tagsIn = <<>>
  /\ tagsOut = NoTags
  /\ NoCalls
  /\ valid = TRUE
  /\ conns = 0
  /\ \E rows \in ResultSets(MaxRows), q \in QueryErrors, c \in CloseErrors :
       cmd = [NoCmd EXCEPT !.args = <<q, rows, c>>]

SqlScan ==
  /\ backend = "sql"
  /\ cmd.name = "none"
  /\ cmd' = [name |-> "findActivities", args |-> cmd.args, now |-> 0, id |-> 0,
             err |-> SqlFindActivitiesOn(cmd.args[1], cmd.args[2], cmd.args[3])]
  /\ last' = Op("findActivities", 0, "nil")
  /\ UNCHANGED <<tagVars, concVars, valid, conns, backend, csvVars, sqlVars,
                 saved, created, updates>>

NextScan == SqlScan

SpecScan == InitScan /\ [][NextScan]_vars

(***************************************************************************)
(* The week branch of ListCommand.Run, on the weekdays of the starts of    *)
(* the activities FindActivitiesBetween returned, in the order returned.   *)
(* An activity is named by its index in that list.                         *)
(***************************************************************************)
MaxListed == 3

\* time.Sunday .. time.Saturday
Sunday == 0

Saturday == 6

Weekdays == Sunday..Saturday

\* the inner loop: the index after the run of activities of the day that
\* begins at i
RECURSIVE DayEnd(_, _, _)
DayEnd(weekdays, i, day) ==
  IF i <= Len(weekdays) /\ weekdays[i] = day
  THEN DayEnd(weekdays, i + 1, day)
  ELSE i

\* the outer loop: the sections written so far, each the heading's day and
\* the indices of the rows of its table
RECURSIVE WeekLoop(_, _, _, _)
WeekLoop(weekdays, i, day, sections) ==
  IF ~(i <= Len(weekdays) /\ day <= Saturday) THEN sections
  ELSE IF weekdays[i] # day THEN WeekLoop(weekdays, i, day + 1, sections)
  ELSE LET upper == DayEnd(weekdays, i, day)
       IN WeekLoop(weekdays, upper, day + 1,
                   Append(sections,
                          [day |-> day,
                           rows |-> [k \in 1..(upper - i) |-> i + k - 1]]))

\* the output of the command, as its sections; no section for an empty list
ListWeek(weekdays) ==
  IF Len(weekdays) = 0 THEN <<>>
  ELSE WeekLoop(weekdays, 1, Sunday, <<>>)

\* the lists FindActivitiesBetween can return
WeekLists ==
  UNION {[1..n -> Weekdays] : n \in 0..MaxListed}

InitWeek ==
  /\ backend = "csv"
  /\ file = <<>>
  /\ version = 0
  /\ lastId = 0
  /\ schema = NoSchema
  /\ table = EmptyTable
  /\ saved = EmptyTable
  /\ created = <<>>
  /\ updates = 0
  /\ last = Op("none", 0, "nil")
  /\ tagsIn = <<>>
  /\ tagsOut = NoTags
  /\ NoCalls
  /\ valid = TRUE
  /\ conns = 0
  /\ \E weekdays \in WeekLists : cmd = [NoCmd EXCEPT !.args = weekdays]

\* ListCommand.Run with the argument "week"; cmd.err holds the sections
ListWeekRun ==
  /\ cmd.name = "none"
  /\ cmd' = [name |-> "list", args |-> cmd.args, now |-> 0, id |-> 0,
             err |-> ListWeek(cmd.args)]
  /\ last' = Op("list", 0, "nil")
  /\ UNCHANGED <<tagVars, concVars, valid, conns, backend, csvVars, sqlVars,
                 saved, created, updates>>

NextWeek == ListWeekRun

SpecWeek == InitWeek /\ [][NextWeek]_vars

(***************************************************************************)
(* The commands.  main opens and migrates the store and runs one command   *)
(* with the arguments of the command line; the clock gives now in the      *)
(* local zone.  A command works on the store through the Database          *)
(* interface.                                                               *)
(***************************************************************************)
\* the store behind the Database interface
Store == [file |-> file, lastId |-> lastId, table |-> table]

\* db.SaveActivity(a): Csv updates for an id above 0 and creates otherwise,
\* Sql inserts for id 0 and updates otherwise; id is a.Id afterwards
SaveActivity(st, a) ==
  IF backend = "csv"
  THEN IF a.Id > 0
       THEN LET r == CsvUpdateActivity(st.file, a)
            IN [err |-> r.err, id |-> a.Id, store |-> [st EXCEPT !.file = r.file]]
       ELSE LET r == CsvCreateActivity(st.file, version, st.lastId, a)
            IN [err |-> r.err, id |-> r.id,
                store |-> [st EXCEPT !.file = r.file, !.lastId = r.lastId]]
  ELSE LET r == SqlSaveActivity(st.table, a)
       IN [err |-> r.err, id |-> r.id, store |-> [st EXCEPT !.table = r.table]]

\* db.FindActivity(id)
FindActivityIn(st, id) ==
  IF backend = "csv" THEN CsvFindActivity(st.file, id)
  ELSE SqlFindActivity(st.table, id)

\* db.FindRunningActivities()
FindRunningActivitiesIn(st) ==
  IF backend = "csv" THEN CsvFindRunningActivities(st.file)
  ELSE SqlFindRunningActivities(st.table)

\* db.FindAllActivities()
FindAllActivitiesIn(st) ==
  IF backend = "csv" THEN CsvFindAllActivities(st.file)
  ELSE SqlFindAllActivities(st.table)

\* c.Now(): time.Now() is in the local zone
Now(n) == At(n, LocalOffset)

\* what a command returns: its error, the activities it saved, in order,
\* the id it reports and the store it leaves
Ran(err, acts, id, st) == [err |-> err, saved |-> acts, id |-> id, store |-> st]

\* StartCommand.Run
StartRun(st, now, args) ==
  IF Len(args) = 0 THEN Ran("SyntaxError", <<>>, 0, st)
  ELSE LET activity ==
             [NoActivity EXCEPT
                !.Name = args[1],
                !.Project = IF Len(args) > 1 THEN args[2] ELSE <<>>,
                !.Tags = IF Len(args) > 2 THEN SubSeq(args, 3, Len(args))
                         ELSE <<>>,
                !.Start = Now(now)]
           r == SaveActivity(st, activity)
       IN IF r.err = "nil"
          THEN Ran("nil", <<[activity EXCEPT !.Id = r.id]>>, r.id, r.store)
          ELSE Ran(r.err, <<>>, 0, r.store)

\* RestartCommand.Run
RestartRun(st, now, args) ==
  IF Len(args) = 0 THEN Ran("SyntaxError", <<>>, 0, st)
  ELSE LET id == ParseInt(args[1])
           found == FindActivityIn(st, id.val)
           activity == [found.activity EXCEPT
                          !.Id = 0, !.Start = Now(now), !.End = ZeroTime]
           r == SaveActivity(st, activity)
       IN IF ~id.ok THEN Ran("SyntaxError", <<>>, 0, st)
          ELSE IF found.err # "nil" THEN Ran(found.err, <<>>, 0, st)
          ELSE IF r.err = "nil"
          THEN Ran("nil", <<[activity EXCEPT !.Id = r.id]>>, r.id, r.store)
          ELSE Ran(r.err, <<>>, 0, r.store)

\* the loop of StopCommand.Run over the running activities
RECURSIVE StopEach(_, _, _, _)
StopEach(st, activities, end, done) ==
  IF activities = <<>> THEN Ran("nil", done, 0, st)
  ELSE LET activity == [Head(activities) EXCEPT !.End = end]
           r == SaveActivity(st, activity)
       IN IF r.err # "nil" THEN Ran(r.err, done, 0, r.store)
          ELSE StopEach(r.store, Tail(activities), end, Append(done, activity))

\* StopCommand.Run
StopRun(st, now, args) ==
  IF Len(args) # 0 THEN Ran("nil", <<>>, 0, st)
  ELSE LET found == FindRunningActivitiesIn(st)
       IN IF found.err # "nil" THEN Ran(found.err, <<>>, 0, st)
          ELSE StopEach(st, found.activities, Now(now), <<>>)

\* the zone of a date typed in DateWithZoneFormat
ZoneArgUTC == <<"+", "0", "0", "0", "0">>

ZoneArgPlus1 == <<"+", "0", "1", "0", "0">>

\* time.ParseInLocation(DateFormat, s, time.Local) and, when that fails,
\* time.Parse(DateWithZoneFormat, s): the wall clock reading is one digit
ParseDate(s) ==
  IF Len(s) = 1 /\ IsDigit(s[1])
  THEN [ok |-> TRUE, t |-> At(DigitVal(s[1]) - LocalOffset, LocalOffset)]
  ELSE IF Len(s) = 7 /\ IsDigit(s[1]) /\ s[2] = SPACE
          /\ SubSeq(s, 3, 7) = ZoneArgUTC
  THEN [ok |-> TRUE, t |-> At(DigitVal(s[1]), 0)]
  ELSE IF Len(s) = 7 /\ IsDigit(s[1]) /\ s[2] = SPACE
          /\ SubSeq(s, 3, 7) = ZoneArgPlus1
  THEN [ok |-> TRUE, t |-> At(DigitVal(s[1]) - 1, 1)]
  ELSE [ok |-> FALSE, t |-> ZeroTime]

\* the names of the fields EditCommand.Run knows
FieldName == <<"n", "a", "m", "e">>

FieldProject == <<"p", "r", "o", "j", "e", "c", "t">>

FieldTags == <<"t", "a", "g", "s">>

FieldStart == <<"s", "t", "a", "r", "t">>

FieldEnd == <<"e", "n", "d">>

\* the switch with its syntax errors left out: a missing name is the empty
\* name, a missing or unreadable date the zero time, an unknown field no
\* change
EditedUnchecked(activity, args) ==
  LET field == args[2]
      rest == SubSeq(args, 3, Len(args))
      value == Join(rest, <<SPACE>>)
      date == ParseDate(value)
  IN [err |-> "nil",
      activity |->
        IF field = FieldName THEN [activity EXCEPT !.Name = value]
        ELSE IF field = FieldProject THEN [activity EXCEPT !.Project = value]
        ELSE IF field = FieldTags THEN [activity EXCEPT !.Tags = rest]
        ELSE IF field = FieldStart THEN [activity EXCEPT !.Start = date.t]
        ELSE IF field = FieldEnd THEN [activity EXCEPT !.End = date.t]
        ELSE activity]

\* the switch of EditCommand.Run on the field: the activity with the field
\* set, or the syntax error
Edited(activity, args) ==
  LET field == args[2]
      rest == SubSeq(args, 3, Len(args))
      value == Join(rest, <<SPACE>>)
      date == ParseDate(value)
  IN IF field = FieldName
     THEN IF Len(args) > 2
          THEN [err |-> "nil", activity |-> [activity EXCEPT !.Name = value]]
          ELSE [err |-> "SyntaxError", activity |-> activity]
     ELSE IF field = FieldProject
     THEN [err |-> "nil",
           activity |-> [activity EXCEPT
                           !.Project = IF Len(args) > 2 THEN value ELSE <<>>]]
     ELSE IF field = FieldTags
     THEN [err |-> "nil", activity |-> [activity EXCEPT !.Tags = rest]]
     ELSE IF field \in {FieldStart, FieldEnd}
     THEN IF Len(args) > 2 /\ date.ok
          THEN [err |-> "nil",
                activity |-> IF field = FieldStart
                             THEN [activity EXCEPT !.Start = date.t]
                             ELSE [activity EXCEPT !.End = date.t]]
          ELSE [err |-> "SyntaxError", activity |-> activity]
     ELSE [err |-> "SyntaxError", activity |-> activity]

\* EditCommand.Run
EditRun(st, args) ==
  IF Len(args) > 1
  THEN LET id == ParseInt(args[1])
           found == FindActivityIn(st, id.val)
           e == Edited(found.activity, args)
           r == SaveActivity(st, e.activity)
       IN IF ~id.ok THEN Ran("SyntaxError", <<>>, 0, st)
          ELSE IF found.err # "nil" THEN Ran(found.err, <<>>, 0, st)
          ELSE IF e.err # "nil" THEN Ran(e.err, <<>>, 0, st)
          ELSE IF r.err = "nil"
          THEN Ran("nil", <<[e.activity EXCEPT !.Id = r.id]>>, 0, r.store)
          ELSE Ran(r.err, <<>>, 0, r.store)
  ELSE Ran("SyntaxError", <<>>, 0, st)

\* the instants the clock gives as now
MaxNow == 2

Nows == 1..MaxNow

\* the arguments of start: none, a name, a name that is a newline, a name
\* and a project, and tags
StartArgs ==
  { <<>>,
    << <<"a">> >>,
    << <<NL>> >>,
    << <<"a", "b">>, <<"p">> >>,
    << <<"a", "b", "c">>, <<"p">>, <<"t">>, <<"u">> >> }

\* the id arguments: every id a create can assign, each without a record
\* until that create has run
IdArgs == {FormatInt(i) : i \in 1..MaxCreates}

\* an argument that is no integer
NoInteger == <<"x">>

\* the arguments of restart: none, an id, an id that is never assigned, and
\* no integer
RestartArgs ==
  {<<>>, <<NoInteger>>, <<FormatInt(0)>>} \cup {<<id>> : id \in IdArgs}

\* what follows the id in the arguments of edit: nothing, each field without
\* and with a value, dates in both formats and in neither, and a field that
\* does not exist
EditFields ==
  { <<FieldName>>,
    <<FieldName, <<"a">> >>,
    <<FieldName, <<"a", "b", "c">>, <<"d">> >>,
    <<FieldProject>>,
    <<FieldProject, <<"q">> >>,
    <<FieldTags>>,
    <<FieldTags, <<"t">> >>,
    <<FieldStart>>,
    <<FieldStart, <<"3">> >>,
    <<FieldEnd>>,
    <<FieldEnd, <<"4">>, ZoneArgUTC>>,
    <<FieldEnd, <<"x">> >>,
    << <<"f", "o", "o">>, <<"a">> >> }

\* the arguments of edit: none, an id alone, no integer for the id, and an
\* id with a field
EditArgs ==
  {<<>>, <<FormatInt(1)>>, <<NoInteger, FieldName, <<"a">> >>}
    \cup {<<id>> \o rest : id \in IdArgs, rest \in EditFields}

\* the history after the activities a command saved: a new activity is
\* added, a saved one replaced
RECURSIVE Recorded(_, _, _)
Recorded(sv, acts, creating) ==
  IF acts = <<>> THEN sv
  ELSE Recorded(IF creating \/ Head(acts).Id \in DOMAIN sv
                THEN (Head(acts).Id :> Head(acts)) @@ sv
                ELSE sv,
                Tail(acts), creating)

\* the command has run: the store is as it left it
Commit(name, args, now, r) ==
  LET creating == name \in {"start", "restart"}
  IN /\ file' = r.store.file
     /\ lastId' = r.store.lastId
     /\ table' = r.store.table
     /\ saved' = Recorded(saved, r.saved, creating)
     /\ created' = IF creating /\ r.err = "nil" THEN Append(created, r.id)
                   ELSE created
     /\ updates' = IF name = "edit" THEN updates + 1 ELSE updates
     /\ cmd' = [name |-> name, args |-> args, id |-> r.id, err |-> r.err,
                now |-> IF r.err = "nil" THEN now ELSE 0]
     /\ last' = Op(name, r.id, r.err)
     /\ UNCHANGED <<tagVars, concVars, valid, conns, backend, version, schema>>

CmdStart ==
  /\ Migrated
  /\ Len(created) < MaxCreates
  /\ \E args \in StartArgs, now \in Nows :
       Commit("start", args, now, StartRun(Store, now, args))

CmdRestart ==
  /\ Migrated
  /\ Len(created) < MaxCreates
  /\ \E args \in RestartArgs, now \in Nows :
       Commit("restart", args, now, RestartRun(Store, now, args))

CmdStop ==
  /\ Migrated
  /\ \E now \in Nows : Commit("stop", <<>>, now, StopRun(Store, now, <<>>))

CmdEdit ==
  /\ Migrated
  /\ updates < MaxUpdates
  /\ \E args \in EditArgs :
       Commit("edit", args, 0, EditRun(Store, args))

NextCmd ==
  \/ CsvMigrate
  \/ SqlMigrate
  \/ CmdStart
  \/ CmdRestart
  \/ CmdStop
  \/ CmdEdit

SpecCmd == Init /\ [][NextCmd]_vars

(***************************************************************************)
(* Saves on a store in which a name holds a newline followed by the start   *)
(* of a record line.                                                        *)
(***************************************************************************)
\* activities whose name reads as a line break and the id field of a line
NestedTemplates ==
  { Activity(<<NL, "2", COMMA>>, <<>>, <<>>, At(1, 0), At(2, 0)),
    Activity(<<"a", NL, "3", COMMA>>, <<"p">>, <<>>, At(1, 0), ZeroTime) }

\* SaveActivity on an activity with id 0 and such a name
CsvCreateNested ==
  /\ backend = "csv"
  /\ Migrated
  /\ Len(created) < MaxCreates
  /\ \E t \in NestedTemplates :
       LET r == CsvCreateActivity(file, version, lastId, t)
       IN /\ file' = r.file
          /\ lastId' = r.lastId
          /\ saved' = (r.id :> [t EXCEPT !.Id = r.id]) @@ saved
          /\ created' = Append(created, r.id)
          /\ last' = Op("create", r.id, r.err)
  /\ UNCHANGED <<auxVars, backend, version, sqlVars, updates>>

NextNested ==
  \/ CsvMigrate
  \/ CsvCreate
  \/ CsvCreateNested
  \/ CsvUpdate
  \/ SqlMigrate
  \/ SqlCreate
  \/ SqlUpdate

SpecNested == Init /\ [][NextNested]_vars

Next ==
  \/ CsvMigrate
  \/ CsvCreate
  \/ CsvUpdate
  \/ CsvDelete
  \/ SqlMigrate
  \/ SqlCreate
  \/ SqlUpdate
  \/ SqlDelete

Spec == Init /\ [][Next]_vars

(***************************************************************************)
(* The backend in use, seen through the Database interface.                 *)
(***************************************************************************)
Version == IF backend = "csv" THEN version ELSE SqlStoredVersion(schema)

FindActivity(id) ==
  IF backend = "csv" THEN CsvFindActivity(file, id)
  ELSE SqlFindActivity(table, id)

FindAllActivities ==
  IF backend = "csv" THEN CsvFindAllActivities(file)
  ELSE SqlFindAllActivities(table)

FindRunningActivities ==
  IF backend = "csv" THEN CsvFindRunningActivities(file)
  ELSE SqlFindRunningActivities(table)

FindActivitiesBetween(lower, upper) ==
  IF backend = "csv" THEN CsvFindActivitiesBetween(file, lower, upper)
  ELSE SqlFindActivitiesBetween(table, lower, upper)

(***************************************************************************)
(* The operations that read.  Csv.Valid and Csv.Version return a field;     *)
(* the find functions of Csv open the file with os.Open.  Every operation  *)
(* of Sql opens a connection with sql.Open and works on it.                 *)
(***************************************************************************)
\* the connections a caller may leave open before the model stops counting
MaxConns == 2

\* the file after a function that opened it with O_TRUNC
FileAfterTruncatingOpen(f) == <<>>

\* the file after a function that opened it with os.Open and read from it:
\* O_RDONLY creates nothing, truncates nothing and allows no write
FileAfterRead(f) == f

\* the connections an operation of Sql has opened and not closed when it
\* returns: Valid, Migrate, SaveActivity and findActivities call conn.Close
\* before they return and DeleteActivity defers it; Version returns without
\* closing
SqlLeftOpen(op) == IF op = "version" THEN 1 ELSE 0

\* what a reading operation leaves: the file, and the connections of Sql
Read(op, id, err) ==
  /\ conns + SqlLeftOpen(op) <= MaxConns
  /\ last' = Op(op, id, err)
  /\ file' = (IF backend = "csv" THEN FileAfterRead(file) ELSE file)
  /\ conns' = (IF backend = "sql" THEN conns + SqlLeftOpen(op) ELSE conns)
  /\ UNCHANGED <<tagVars, concVars, valid, cmd, backend, version, lastId,
                 sqlVars, saved, created, updates>>

\* db.Valid()
ReadValid == Read("valid", 0, "nil")

\* db.Version()
ReadVersion == Read("version", Version, "nil")

\* db.FindActivity(id)
ReadFindActivity ==
  /\ Migrated
  /\ \E id \in IdInputs : Read("find", id, FindActivity(id).err)

\* db.FindAllActivities()
ReadFindAll ==
  /\ Migrated
  /\ Read("findAll", 0, FindAllActivities.err)

\* db.FindRunningActivities()
ReadFindRunning ==
  /\ Migrated
  /\ Read("findRunning", 0, FindRunningActivities.err)

\* db.FindActivitiesBetween(lower, upper)
ReadFindBetween ==
  /\ Migrated
  /\ \E lower \in {1}, upper \in {2, 3} :
       Read("findBetween", upper, FindActivitiesBetween(lower, upper).err)

NextRead ==
  \/ Next
  \/ ReadValid
  \/ ReadVersion
  \/ ReadFindActivity
  \/ ReadFindAll
  \/ ReadFindRunning
  \/ ReadFindBetween

SpecRead == Init /\ [][NextRead]_vars

(***************************************************************************)
(* Properties.                                                              *)
(***************************************************************************)
Stored == DOMAIN saved

\* FindActivity(id) succeeds and returns an activity Equal to a
Finds(id, a) ==
  LET r == FindActivity(id)
  IN r.err = "nil" /\ ActivityEqual(a, r.activity)

\* the ids of a list of activities
IdsOf(activities) == {activities[k].Id : k \in 1..Len(activities)}

\* a query result holds exactly the saved activities with the ids in ids,
\* each once
ReturnsExactly(r, ids) ==
  /\ r.err = "nil"
  /\ Len(r.activities) = Cardinality(ids)
  /\ IdsOf(r.activities) = ids
  /\ \A k \in 1..Len(r.activities) :
       ActivityEqual(saved[r.activities[k].Id], r.activities[k])

SaveSucceeded ==
  last.op \in {"create", "update"} /\ last.err = "nil" /\ last.id \in Stored

\* C1: after SaveActivity(A) returns without error, FindActivity(A.Id)
\* returns an activity Equal to A, on both backends.
C1_RoundTrip == SaveSucceeded => Finds(last.id, saved[last.id])

\* the ids of created are strictly increasing
Increasing(ids) == \A i, j \in 1..Len(ids) : i < j => ids[i] < ids[j]

\* C2: on the flat file the first create of a migrated store assigns id 1,
\* every create assigns exactly lastId + 1 and records it as the new lastId,
\* and the assigned ids are strictly increasing whatever was deleted since.
C2_CsvIdAssignment ==
  /\ [](backend = "csv" =>
          /\ created # <<>> => created[1] = 1
          /\ Increasing(created))
  /\ [][(backend = "csv" /\ created' # created) =>
          /\ created' = Append(created, lastId + 1)
          /\ last'.id = lastId + 1
          /\ lastId' = lastId + 1]_vars

\* a create ran after the record of an earlier create was deleted
C2_Witness ==
  /\ backend = "csv"
  /\ last.op = "create"
  /\ Len(created) = 2
  /\ created[1] \notin Stored

\* C3: on the relational backend every create yields an id above 0 that is
\* greater than the id of every earlier create, also after deletes.
C3_SqlIdsIncrease ==
  backend = "sql" =>
    /\ \A i \in 1..Len(created) : created[i] > 0
    /\ Increasing(created)

\* C4: a successful SaveActivity of an activity whose id is in the store
\* leaves the number of records unchanged and exactly one record with that
\* id, whose decoded content equals the saved activity.
C4_UpdateKeepsIdentity ==
  (last.op = "update" /\ last.err = "nil" /\ last.id \in Stored) =>
    LET all == FindAllActivities
    IN /\ all.err = "nil"
       /\ Len(all.activities) = Cardinality(Stored)
       /\ Cardinality({k \in 1..Len(all.activities) :
                         all.activities[k].Id = last.id}) = 1
       /\ \A k \in 1..Len(all.activities) :
            all.activities[k].Id = last.id =>
              ActivityEqual(saved[last.id], all.activities[k])

\* C5: after an update on the flat file that changed the length of the line,
\* every other stored record is found with the content last saved for it.
C5_VariableLengthUpdate ==
  (backend = "csv" /\ last.op = "update" /\ last.err = "nil" /\ last.moved) =>
    \A id \in Stored \ {last.id} : Finds(id, saved[id])

\* the lines of the activities with the ids in ids, as the backend encodes
\* the saved activities
RECURSIVE LinesOf(_)
LinesOf(ids) ==
  IF ids = <<>> THEN <<>>
  ELSE CsvWrite(ActivityToRecord(saved[Head(ids)])) \o LinesOf(Tail(ids))

\* C6: after every mutating operation the flat file is the 45 bytes of front
\* matter, the 31 bytes of header and then exactly one complete line per
\* stored activity and no other byte, and FindAllActivities returns exactly
\* the stored activities.
C6_FileWellFormed ==
  (backend = "csv" /\ Migrated) =>
    LET all == CsvFindAllActivities(file)
    IN /\ SubSeq(file, 1, HeaderOffset) = FrontMatter(version, lastId)
       /\ SubSeq(file, HeaderOffset + 1, DataOffset) = CsvWrite(HeaderRecord)
       /\ ReturnsExactly(all, Stored)
       /\ From(file, DataOffset + 1)
            = LinesOf([k \in 1..Len(all.activities) |-> all.activities[k].Id])

\* C7: after DeleteActivity(id) returns without error, FindActivity(id) fails
\* with ErrNotFound, one record less is stored and every other saved record
\* is found unchanged, on both backends.
C7_DeleteThenFind ==
  (last.op = "delete" /\ last.err = "nil") =>
    /\ FindActivity(last.id).err = "ErrNotFound"
    /\ FindAllActivities.err = "nil"
    /\ Len(FindAllActivities.activities) = Cardinality(Stored)
    /\ \A id \in Stored : Finds(id, saved[id])

\* C8: FindActivity(id) returns ErrNotFound for every id without a record:
\* never assigned, deleted, 0 or negative, in an empty or a filled store.
C8_FindNotFound ==
  Migrated =>
    \A id \in IdInputs : id \notin Stored => FindActivity(id).err = "ErrNotFound"

\* C9: DeleteActivity(id) for an id without a record returns ErrNotFound and
\* leaves the file, the rows and with them the records, their content and
\* their order unchanged.
C9_DeleteNotFound ==
  [][(last'.op = "delete" /\ last'.id \notin Stored) =>
       /\ last'.err = "ErrNotFound"
       /\ file' = file
       /\ table' = table]_vars

\* C10: FindRunningActivities returns exactly the stored records whose end is
\* the zero time, each once, after any sequence of saves and deletes.
C10_RunningFilter ==
  Migrated =>
    ReturnsExactly(FindRunningActivities,
                   {id \in Stored : IsRunning(saved[id])})

\* C11: FindActivitiesBetween(lower, upper) returns exactly the stored
\* records with lower <= start < upper, each once: start = lower is in,
\* start = upper is out, and the result is empty when upper <= lower.
C11_BetweenFilter ==
  Migrated =>
    \A lower, upper \in Instants :
      ReturnsExactly(FindActivitiesBetween(lower, upper),
                     {id \in Stored : /\ lower <= saved[id].Start.inst
                                      /\ saved[id].Start.inst < upper})

\* C12: a Migrate on a store that is at the target version, as the second of
\* two calls in a row is, returns no error and writes nothing: the file with
\* its front matter and header, the tables, the version and the records are
\* as before.
C12_MigrateIdempotent ==
  [][(Migrated /\ last'.op = "migrate") =>
       /\ last'.err = "nil"
       /\ file' = file
       /\ schema' = schema
       /\ table' = table
       /\ Version' = Version
       /\ saved' = saved]_vars

\* a Migrate ran on a store that was migrated before and holds records
C12_Witness ==
  /\ last.op = "migrate"
  /\ last.err = "nil"
  /\ Stored # {}

\* C13: the first Migrate on a fresh store returns no error and leaves
\* Version() at the target version of the backend, 1 for the flat file and 2
\* for the relational backend; the flat file is then the front matter with
\* version 1 and last-id 0 followed by the header line and nothing else.
C13_MigrateFresh ==
  [][(last.op = "new" /\ last'.op = "migrate") =>
       /\ last'.err = "nil"
       /\ backend = "csv" =>
            /\ Version' = 1
            /\ CsvVersion = 1
            /\ file' = FrontMatter(1, 0) \o CsvWrite(HeaderRecord)
            /\ Len(file') = DataOffset
       /\ backend = "sql" =>
            /\ Version' = 2
            /\ SqlVersion = 2]_vars

\* the store right after its first Migrate
C13_Witness ==
  /\ last.op = "migrate"
  /\ last.err = "nil"
  /\ Migrated
  /\ created = <<>>

\* the version the store holds: the front matter of the file, the row of
\* schema_info
PersistedVersion ==
  IF backend = "csv" THEN ReadFrontMatter(file).version
  ELSE SqlStoredVersion(schema)

\* the store is at the target version with the structure of that version
Structured ==
  IF backend = "csv"
  THEN /\ version = CsvVersion
       /\ SubSeq(file, 1, HeaderOffset) = FrontMatter(version, lastId)
       /\ SubSeq(file, HeaderOffset + 1, DataOffset) = CsvWrite(HeaderRecord)
  ELSE schema = [info |-> TRUE, version |-> SqlVersion, activities |-> TRUE]

\* C14: a Migrate in which the structural change of a step fails leaves the
\* persisted version at or below that step, and every later Migrate in which
\* nothing fails, on the same instance or after the program started again,
\* returns no error and leaves the store at the target version with the
\* front matter and the header line, or the two tables, in place.
C14_FailedMigration ==
  /\ [][(last'.op = "migrate" /\ last'.err = "ErrIO") =>
          PersistedVersion' <= last'.id]_vars
  /\ [][(last'.op = "migrate" /\ last'.err # "ErrIO") =>
          /\ last'.err = "nil"
          /\ Structured']_vars

\* the caller is past the append of its create
Appended(c) ==
  /\ callers[c].op = "create"
  /\ callers[c].at \in {"setLastId", "frontMatterArgs", "writeFrontMatter",
                         "done"}

\* the ids of the record lines of the file, where the data region decodes
LineIds ==
  LET all == CsvReadAll(file, DataOffset + 1)
  IN IF all.err # "nil" THEN <<>>
     ELSE [k \in 1..Len(all.records) |-> all.records[k][1]]

\* C15: under every interleaving of concurrent creates on one Csv value the
\* activities get pairwise different ids and the file never holds two
\* record lines with the same id.
C15_DistinctIds ==
  /\ \A c, d \in Callers :
       (c # d /\ Appended(c) /\ Appended(d)) => callers[c].id # callers[d].id
  /\ \A i, j \in 1..Len(LineIds) : i # j => LineIds[i] # LineIds[j]

\* the step is the write of caller c: it held the mutex in a writing
\* function and has left the function
Wrote(c) ==
  /\ callers[c].in
  /\ callers[c].at \in WriteFns
  /\ ~callers'[c].in

\* the caller is between the tail read and the tail write of a relocating
\* update, or between the append and the front-matter write of a create
MidMutation(d) ==
  \/ callers[d].stage \in {"newline", "tail"}
  \/ /\ callers[d].op = "create"
     /\ callers[d].at \in {"setLastId", "frontMatterArgs", "writeFrontMatter"}

\* the bytes of line are in the data region of the file, in one piece
HoldsLine(f, line) ==
  \E p \in (DataOffset + 1)..(Len(f) - Len(line) + 1) :
    SubSeq(f, p, p + Len(line) - 1) = line

\* C16: no caller writes to the file while another caller is between the
\* tail read and the tail write of its relocating update or between the
\* append and the front-matter write of its create, and the line a create
\* appended stays in the file whatever updates run beside it.
C16_MutationsSerialized ==
  /\ [][\A c, d \in Callers :
          (c # d /\ Wrote(c)) => ~MidMutation(d)]_vars
  /\ [](\A c \in Callers :
          Appended(c) =>
            HoldsLine(file, CsvWrite(ActivityToRecord(callers[c].act))))

\* C17: while a caller is in appendRecord, writeBytes or writeFrontMatter no
\* other caller is in a function that reads or writes the file; and a
\* caller at a reading function gets in whenever the callers that are in a
\* function are all reading.
C17_ReaderWriterExclusion ==
  /\ \A c \in Callers :
       (callers[c].in /\ callers[c].at \in WriteFns) =>
         \A d \in Callers \ {c} : ~callers[d].in
  /\ \A d \in Callers :
       (/\ callers[d].at \in ReadFns
        /\ ~callers[d].in
        /\ \A c \in Callers : callers[c].in => callers[c].at \in ReadFns) =>
         ENABLED RLock(d)

\* a caller is in a writing function while another has called a reading
\* function and waits for the mutex
C17_Witness ==
  \E c, d \in Callers :
    /\ c # d
    /\ callers[c].in
    /\ callers[c].at \in WriteFns
    /\ callers[d].at \in ReadFns
    /\ ~callers[d].in

\* C18: a find operation whose read of the file falls into a relocating
\* update of another caller returns no error and only activities that were
\* written to the file at some point.
C18_NoTornReads ==
  \A c \in Callers :
    (/\ callers[c].op \in {"find", "findAll"}
     /\ callers[c].at = "done"
     /\ callers[c].during) =>
      /\ callers[c].res.err = "nil"
      /\ \A k \in 1..Len(callers[c].res.activities) :
           \E a \in everSaved :
             /\ a.Id = callers[c].res.activities[k].Id
             /\ ActivityEqual(a, callers[c].res.activities[k])

\* a comma, a double quote or a newline
Special == {COMMA, QUOTE, NL}

Contains(str, chars) == \E k \in 1..Len(str) : str[k] \in chars

\* the name, the project or a tag of the activity holds a byte of chars
HasByteOf(a, chars) ==
  \/ Contains(a.Name, chars)
  \/ Contains(a.Project, chars)
  \/ \E k \in 1..Len(a.Tags) : Contains(a.Tags[k], chars)

\* FindAllActivities succeeds and returns an activity Equal to a
ListsUnchanged(a) ==
  LET all == FindAllActivities
  IN /\ all.err = "nil"
     /\ \E k \in 1..Len(all.activities) :
          /\ all.activities[k].Id = a.Id
          /\ ActivityEqual(a, all.activities[k])

\* C19: on the flat file a stored record with a comma, a double quote or a
\* newline in its name, project or tags is returned unchanged by
\* FindActivity and by FindAllActivities, and the scan that FindActivity,
\* update and delete share locates every record stored after it.
C19_EmbeddedDelimiters ==
  (backend = "csv" /\ Migrated) =>
    \A id \in Stored :
      HasByteOf(saved[id], Special) =>
        /\ Finds(id, saved[id])
        /\ ListsUnchanged(saved[id])
        /\ \A later \in Stored :
             later > id => FindActivityLine(file, later).err = "nil"

\* C20: SetTagList("") yields the empty tag list, and for every
\* tag sequence T SetTagList(TagList(T)) yields T, also through a save and a
\* find on either backend.
C20_TagListCanonical ==
  /\ tagsOut.op = "empty" => tagsOut.tags = <<>>
  /\ tagsOut.op \in {"roundtrip", "csv", "sql"} =>
       tagsOut.err = "nil" /\ tagsOut.tags = tagsIn

\* the first 45 bytes of the file match the pattern of the front matter: the
\* marker, three digits, the separator, nineteen digits and a newline
MatchesFrontMatter(f) ==
  /\ Len(f) >= HeaderOffset
  /\ SubSeq(f, 1, 11) = SubSeq(FrontMatter(0, 0), 1, 11)
  /\ \A k \in 12..14 : IsDigit(f[k])
  /\ SubSeq(f, 15, 25) = SubSeq(FrontMatter(0, 0), 15, 25)
  /\ \A k \in 26..44 : IsDigit(f[k])
  /\ f[HeaderOffset] = NL

\* C21: NewCsv on a file whose first line does not match the front-matter
\* pattern returns ErrBadFrontMatter and Valid() is then false; on an empty
\* file it returns no error with version 0 and last id 0; on a file with
\* well-formed front matter it returns no error and loads the version and
\* the last id written there.
C21_OpenFrontMatter ==
  [][last'.op = "open" =>
       /\ file = <<>> =>
            /\ last'.err = "nil"
            /\ valid'
            /\ version' = 0
            /\ lastId' = 0
       /\ MatchesFrontMatter(file) =>
            /\ last'.err = "nil"
            /\ valid'
            /\ PadInt(version', 3) = SubSeq(file, 12, 14)
            /\ PadInt(lastId', 19) = SubSeq(file, 26, 44)
       /\ (file # <<>> /\ ~MatchesFrontMatter(file)) =>
            /\ last'.err = "ErrBadFrontMatter"
            /\ ~valid']_vars

\* the ids of seq that are in S, in the order of seq
RECURSIVE Kept(_, _)
Kept(seq, S) ==
  IF seq = <<>> THEN <<>>
  ELSE (IF Head(seq) \in S THEN <<Head(seq)>> ELSE <<>>) \o Kept(Tail(seq), S)

\* C22: on the flat file FindAllActivities returns the stored records in the
\* order of their creation, after every sequence of creates, updates and
\* deletes, and so again on every further call.
C22_FindAllOrder ==
  (backend = "csv" /\ Migrated) =>
    LET all == CsvFindAllActivities(file)
    IN /\ all.err = "nil"
       /\ [k \in 1..Len(all.activities) |-> all.activities[k].Id]
            = Kept(created, Stored)

\* the store after the step
After == [file |-> file', lastId |-> lastId', table |-> table']

\* what the stop command leaves: no running activity, the ids and their
\* number as before, the end of every activity that was running at now and
\* every other end as it was
StopOk ==
  LET before == FindAllActivitiesIn(Store)
      after == FindAllActivitiesIn(After)
      running == FindRunningActivitiesIn(After)
  IN /\ running.err = "nil"
     /\ running.activities = <<>>
     /\ before.err = "nil"
     /\ after.err = "nil"
     /\ Len(after.activities) = Len(before.activities)
     /\ \A k \in 1..Len(before.activities) :
          /\ after.activities[k].Id = before.activities[k].Id
          /\ TimeEqual(after.activities[k].End,
                       IF IsRunning(before.activities[k])
                       THEN Now(cmd'.now)
                       ELSE before.activities[k].End)

\* C23: after StopCommand.Run with no arguments returns without error,
\* FindRunningActivities is empty, FindAllActivities returns the same ids in
\* the same number as before, every activity that was running has the end
\* the clock gave as now and every other activity the end it had.
C23_StopCommand ==
  [][(last'.op = "stop" /\ cmd'.args = <<>> /\ cmd'.err = "nil") => StopOk]_vars

\* the activities of a query result with the id
WithId(r, id) == {k \in 1..Len(r.activities) : r.activities[k].Id = id}

\* what the restart command leaves
RestartOk ==
  LET before == FindAllActivitiesIn(Store)
      after == FindAllActivitiesIn(After)
      id == IF cmd'.args = <<>> THEN [ok |-> FALSE, val |-> 0]
            ELSE ParseInt(cmd'.args[1])
      source == FindActivityIn(Store, id.val)
      new == FindActivityIn(After, cmd'.id)
  IN IF id.ok /\ id.val \in Stored
     THEN /\ cmd'.err = "nil"
          /\ before.err = "nil"
          /\ after.err = "nil"
          /\ Len(after.activities) = Len(before.activities) + 1
          /\ WithId(before, cmd'.id) = {}
          /\ Cardinality(WithId(after, cmd'.id)) = 1
          /\ source.err = "nil"
          /\ new.err = "nil"
          /\ new.activity.Name = saved[id.val].Name
          /\ new.activity.Project = saved[id.val].Project
          /\ new.activity.Tags = saved[id.val].Tags
          /\ TimeEqual(new.activity.Start, Now(cmd'.now))
          /\ IsRunning(new.activity)
          /\ FindActivityIn(After, id.val) = source
          /\ ActivityEqual(source.activity, saved[id.val])
     ELSE /\ cmd'.err = IF id.ok THEN "ErrNotFound" ELSE "SyntaxError"
          /\ After = Store

\* C24: RestartCommand.Run with the id of a record adds exactly one record:
\* it has an id no record had, the name, project and tags of the source, the
\* clock's now as start and the zero time as end, and the source is found
\* as it was; without an id, with an argument that is no integer or with an
\* id that has no record it returns an error and the store is as it was.
C24_RestartCommand == [][last'.op = "restart" => RestartOk]_vars

\* the arguments of edit the command has to reject: fewer than two, an id
\* that is no integer or has no record, a field that does not exist, the
\* field name, start or end without a value, a date in neither format
BadEdit(args) ==
  \/ Len(args) < 2
  \/ ~ParseInt(args[1]).ok
  \/ ParseInt(args[1]).val \notin Stored
  \/ args[2] \notin {FieldName, FieldProject, FieldTags, FieldStart, FieldEnd}
  \/ args[2] \in {FieldName, FieldStart, FieldEnd} /\ Len(args) = 2
  \/ /\ args[2] \in {FieldStart, FieldEnd}
     /\ ~ParseDate(Join(SubSeq(args, 3, Len(args)), <<SPACE>>)).ok

StartOk ==
  LET args == cmd'.args
      before == FindAllActivitiesIn(Store)
      after == FindAllActivitiesIn(After)
      new == FindActivityIn(After, cmd'.id)
  IN IF args = <<>>
     THEN /\ cmd'.err = "SyntaxError"
          /\ After = Store
     ELSE /\ cmd'.err = "nil"
          /\ before.err = "nil"
          /\ after.err = "nil"
          /\ Len(after.activities) = Len(before.activities) + 1
          /\ WithId(before, cmd'.id) = {}
          /\ Cardinality(WithId(after, cmd'.id)) = 1
          /\ new.err = "nil"
          /\ new.activity.Name = args[1]
          /\ new.activity.Project = (IF Len(args) > 1 THEN args[2] ELSE <<>>)
          /\ new.activity.Tags = SubSeq(args, 3, Len(args))
          /\ TimeEqual(new.activity.Start, Now(cmd'.now))
          /\ IsRunning(new.activity)

TargetVersion == IF backend = "csv" THEN CsvVersion ELSE SqlVersion

\* the structural change of every migration step below version n is in the
\* store: the header line behind the front matter; the table schema_info
\* and the table activities
StepsApplied(n) ==
  IF backend = "csv"
  THEN n >= 1 =>
         /\ Len(file) >= DataOffset
         /\ SubSeq(file, HeaderOffset + 1, DataOffset) = CsvWrite(HeaderRecord)
  ELSE /\ n >= 1 => schema.info
       /\ n >= 2 => schema.activities

\* one migration step of the Sql backend moves the stored version by at most
\* one (Csv.Migrate has the single step 0)
SqlStepByOne ==
  LET v == SqlStoredVersion(schema)
      s == SqlMigrateStep(schema, v)
  IN (backend = "sql" /\ v < SqlVersion) =>
       SqlStoredVersion(s.schema) \in {v, v + 1}

\* C27: across Migrate calls that succeed or fail, on either backend, the
\* persisted version never decreases, changes by one per step, never exceeds
\* the target version, and at persisted version N the structural change of
\* every step below N is applied.
C27_VersionMonotone ==
  /\ [](PersistedVersion <= TargetVersion)
  /\ [](StepsApplied(PersistedVersion))
  /\ []SqlStepByOne
  /\ [][PersistedVersion' >= PersistedVersion]_vars
  /\ [][backend = "csv" => PersistedVersion' <= PersistedVersion + 1]_vars


\* the ids of the record lines in the file, as far as the lines decode
IdsInFile ==
  LET r == CsvFindAllActivities(file)
  IN {r.activities[i].Id : i \in DOMAIN r.activities}

\* C29: when the append of a create succeeds and the rewrite of the front
\* matter fails, SaveActivity returns the error, the appended record is found
\* by FindActivity and FindAllActivities once the store is opened again with
\* NewCsv, and no later create assigns an id a record of the file has.
C29_StaleFrontMatter ==
  /\ [](backend = "csv" /\ last.op = "open" /\ last.err = "nil" =>
          /\ \A id \in Stored : Finds(id, saved[id])
          /\ FindAllActivities.err = "nil"
          /\ Stored \subseteq IdsInFile)
  /\ [][(backend = "csv" /\ last'.op = "create" /\ last'.err = "nil") =>
          last'.id \notin IdsInFile]_vars


\* the create of caller c returns without error in this step
CreateReturns(c) ==
  /\ callers[c].op = "create"
  /\ callers[c].at = "writeFrontMatter"
  /\ callers'[c].at = "done"
  /\ callers'[c].res.err = "nil"

\* C28: after every create on the Csv backend that returns without error the
\* last id in the front matter of the file, the field lastId and the id of
\* the record the create appended are equal, and the version in the front
\* matter is the field version.
C28_FrontMatterCache ==
  [][\A c \in Callers :
       CreateReturns(c) =>
         /\ ReadFrontMatter(file').err = "nil"
         /\ ReadFrontMatter(file').lastId = lastId'
         /\ lastId' = callers'[c].id
         /\ ReadFrontMatter(file').version = version']_vars


\* caller c is inside a function that holds the mutex for writing, or inside
\* one that holds it for reading or writing
HoldsExclusive(c) == callers[c].in /\ callers[c].at \in WriteFns

HoldsShared(c) == callers[c].in /\ callers[c].at \in ReadFns \cup WriteFns

\* the step of caller c assigns db.lastId
WritesLastId(c) ==
  /\ callers[c].at = "setLastId"
  /\ callers'[c].at = "frontMatterArgs"

\* the step of caller c reads db.lastId: for the id of a new activity, or
\* for the arguments of writeFrontMatter
ReadsLastId(c) ==
  \/ /\ callers[c].at = "idle"
     /\ callers'[c].op = "create"
     /\ callers'[c].at = "appendRecord"
  \/ /\ callers[c].at = "frontMatterArgs"
     /\ callers'[c].at = "writeFrontMatter"

\* C30: the cached fields version and lastId of a Csv value are written only
\* while its mutex is held for writing and read only while it is held for
\* reading or writing.
C30_CacheUnderLock ==
  [][\A c \in Callers :
       /\ WritesLastId(c) => HoldsExclusive(c)
       /\ ReadsLastId(c) => HoldsShared(c)]_vars


\* C31: for every version in 0..999 and every last id an int64 holds,
\* writeFrontMatter writes exactly 45 bytes at offset 0 and changes no byte
\* at offset 45 or beyond: the header line stays at offset 45, the data
\* region at offset 76, and a file of at least 45 bytes keeps its length.
C31_FrontMatterFrame ==
  [][last'.op = "writeFrontMatter" =>
       /\ Len(FrontMatterOf(cmd'.args[1], cmd'.args[2])) = HeaderOffset
       /\ SubSeq(file', 1, HeaderOffset)
            = FrontMatterOf(cmd'.args[1], cmd'.args[2])
       /\ file'[HeaderOffset] = NL
       /\ \A i \in 1..(HeaderOffset - 1) : file'[i] # NL
       /\ From(file', HeaderOffset + 1) = From(file, HeaderOffset + 1)
       /\ Len(file) >= HeaderOffset => Len(file') = Len(file)]_vars

\* the front matter was rewritten with version 999 and the largest last id
\* on a file with the header line and a record line
C31_Witness ==
  /\ last.op = "writeFrontMatter"
  /\ cmd.args = <<FormatNat(999), MaxInt64>>
  /\ Len(file) > DataOffset
  /\ SubSeq(file, HeaderOffset + 1, DataOffset) = CsvWrite(HeaderRecord)


\* file g is file f with the bytes of line old, somewhere in the data
\* region, replaced by the bytes of line new of the same length, and no
\* other byte changed
OnlyLineReplaced(f, g, old, new) ==
  /\ Len(g) = Len(f)
  /\ \E p \in DataOffset..(Len(f) - Len(old)) :
       /\ SubSeq(f, p + 1, p + Len(old)) = old
       /\ SubSeq(g, p + 1, p + Len(new)) = new
       /\ SubSeq(g, 1, p) = SubSeq(f, 1, p)
       /\ From(g, p + Len(new) + 1) = From(f, p + Len(old) + 1)

\* the step is an update of a stored record whose new encoding is as long as
\* the line it replaces
SameLengthUpdate ==
  /\ backend = "csv"
  /\ last'.op = "update"
  /\ last'.err = "nil"
  /\ last'.id \in Stored
  /\ Len(CsvWrite(ActivityToRecord(saved'[last'.id])))
       = Len(CsvWrite(ActivityToRecord(saved[last'.id])))

\* C32: when the new encoding of an updated record has the byte length of
\* the old line, SaveActivity overwrites the bytes of that line only: the
\* length of the file, the front matter, the header line and every byte of
\* every other record are as before.
C32_SameLengthFrame ==
  [][SameLengthUpdate =>
       OnlyLineReplaced(file, file',
                        CsvWrite(ActivityToRecord(saved[last'.id])),
                        CsvWrite(ActivityToRecord(saved'[last'.id])))]_vars


\* the operations of the Database interface as the history names them
StorageOps ==
  {"valid", "version", "migrate", "create", "update", "delete", "find",
   "findAll", "findRunning", "findBetween"}

\* C33: every operation of the Sql backend that opens a connection has
\* closed it when the call returns, so after any sequence of operations no
\* connection they opened is open.
C33_ConnectionsClosed ==
  /\ [][(backend = "sql" /\ last'.op \in StorageOps) => conns' = conns]_vars
  /\ [](conns = 0)


\* the operations that only read
ReadOps == {"valid", "version", "find", "findAll", "findRunning", "findBetween"}

\* C36: Valid, Version, FindActivity, FindAllActivities,
\* FindRunningActivities and FindActivitiesBetween, whether they succeed or
\* fail, leave the persisted records, the persisted version, the front
\* matter on disk and the fields version and lastId as they were.
C36_ReadsChangeNothing ==
  [][last'.op \in ReadOps =>
       /\ file' = file
       /\ table' = table
       /\ schema' = schema
       /\ version' = version
       /\ lastId' = lastId
       /\ valid' = valid]_vars

\* FindAllActivities failed on a flat file that an update left undecodable,
\* and FindActivity returned ErrNotFound on the Sql backend
C36_Witness ==
  \/ /\ backend = "csv"
     /\ last.op = "findAll"
     /\ last.err # "nil"
     /\ Stored # {}
  \/ /\ backend = "sql"
     /\ last.op = "find"
     /\ last.err = "ErrNotFound"
     /\ Stored # {}


\* the positions of the rows of a result set that rows.Scan decodes, and of
\* those it fails on
Decoded(rows) == {i \in DOMAIN rows : rows[i].scanErr = <<>>}

Failed(rows) == {i \in DOMAIN rows : rows[i].scanErr # <<>>}

\* C34: while findActivities drains a result set, a row that fails to decode
\* does not stop the scan: every row that decodes is returned, the error
\* holds the message of every failed row in the order of the failures,
\* joined with "; ", and the error is nil exactly when no failure was
\* appended.
C34_AggregateError ==
  (cmd.name = "findActivities" /\ cmd.args[1] = <<>>) =>
    LET rows == cmd.args[2]
        r == cmd.err
        failures == [k \in 1..Cardinality(Failed(rows)) |->
                       rows[Ascending(Failed(rows))[k]].scanErr]
        all == IF cmd.args[3] = <<>> THEN failures
               ELSE Append(failures, cmd.args[3])
    IN /\ r.activities
            = [k \in 1..Cardinality(Decoded(rows)) |->
                 rows[Ascending(Decoded(rows))[k]].id]
       /\ r.errors = all
       /\ r.message = Join(all, <<";", SPACE>>)
       /\ r.nil <=> all = <<>>

\* a result set whose first row failed to decode, whose second decoded and
\* whose third failed was drained
C34_Witness ==
  /\ cmd.name = "findActivities"
  /\ cmd.args[1] = <<>>
  /\ Len(cmd.args[2]) = 3
  /\ Failed(cmd.args[2]) = {1, 3}
  /\ cmd.err.activities = <<2>>
  /\ cmd.err.message = <<"e", "1", ";", SPACE, "e", "2">>


\* what a successful edit leaves: the record of the id with the field of the
\* arguments set and its other fields as they were, every other record as it
\* was
EditOk ==
  LET args == cmd'.args
      id == ParseInt(args[1]).val
      field == args[2]
      rest == SubSeq(args, 3, Len(args))
      value == Join(rest, <<SPACE>>)
      before == FindActivityIn(Store, id)
      after == FindActivityIn(After, id)
      allBefore == FindAllActivitiesIn(Store)
      allAfter == FindAllActivitiesIn(After)
  IN /\ before.err = "nil"
     /\ after.err = "nil"
     /\ allBefore.err = "nil"
     /\ allAfter.err = "nil"
     /\ after.activity.Id = id
     /\ Len(allAfter.activities) = Len(allBefore.activities)
     /\ \A k \in 1..Len(allBefore.activities) :
          /\ allAfter.activities[k].Id = allBefore.activities[k].Id
          /\ allBefore.activities[k].Id # id =>
               allAfter.activities[k] = allBefore.activities[k]
     /\ after.activity.Name
          = (IF field = FieldName THEN value ELSE before.activity.Name)
     /\ after.activity.Project
          = (IF field = FieldProject THEN value ELSE before.activity.Project)
     /\ after.activity.Tags
          = (IF field = FieldTags THEN rest ELSE before.activity.Tags)
     /\ TimeEqual(after.activity.Start,
                  IF field = FieldStart THEN ParseDate(value).t
                  ELSE before.activity.Start)
     /\ TimeEqual(after.activity.End,
                  IF field = FieldEnd THEN ParseDate(value).t
                  ELSE before.activity.End)

\* C35: when EditCommand.Run succeeds for an id and a field, the record of
\* the id differs from what it was in that field only, its id is the same
\* and every other record is unchanged; project without a value gives the
\* empty project and tags without a value the empty tag list.
C35_EditOneField ==
  [][(last'.op = "edit" /\ cmd'.err = "nil") => EditOk]_vars


\* C37: SaveActivity with an id above 0 that has no record adds no record
\* and leaves every record, the front matter and lastId as they were, on
\* both backends; on the Csv backend it returns an error.
C37_UpdateMissing ==
  [][(last'.op = "update" /\ last'.id > 0 /\ last'.id \notin Stored) =>
       /\ file' = file
       /\ lastId' = lastId
       /\ table' = table
       /\ backend = "csv" => last'.err # "nil"]_vars


\* the step is a create whose append failed
AppendFailed ==
  /\ backend = "csv"
  /\ last'.op = "create"
  /\ cmd'.name = "createActivity"
  /\ cmd' # cmd

\* the step is the first create that succeeds after the failed append, with
\* no other create in between
NextCreateSucceeds ==
  /\ cmd.name = "createActivity"
  /\ created = cmd.args
  /\ created' # created
  /\ last'.op = "create"
  /\ last'.err = "nil"

\* C38: when appendRecord fails in a create on the Csv backend, SaveActivity
\* returns the error, the id of the activity is 0 again, lastId is as it
\* was, the front matter is not rewritten, and the next create that succeeds
\* gets the id the failed create had computed.
C38_FailedAppend ==
  /\ [][AppendFailed =>
          /\ last'.err # "nil"
          /\ last'.id = 0
          /\ lastId' = lastId
          /\ file' = file]_vars
  /\ [][NextCreateSucceeds => last'.id = cmd.id]_vars


\* the caller holds the mutex, for writing or for reading
Holds(m, c) == m.writer = c \/ c \in m.readers

\* the step is Lock or RLock returning to the caller
Acquires(c) ==
  \/ mutex'.writer = c /\ mutex.writer # c
  \/ c \in mutex'.readers /\ c \notin mutex.readers

\* C39: on the Csv backend no helper takes the mutex while its caller holds
\* it, a call that has returned holds nothing, every call that has begun
\* returns, and once every call has returned the mutex is free.
C39_DeadlockFree ==
  /\ [][\A c \in Callers : Acquires(c) => ~Holds(mutex, c)]_vars
  /\ [](\A c \in Callers : callers[c].at = "done" => ~Holds(mutex, c))
  /\ \A c \in Callers : (callers[c].at # "idle") ~> (callers[c].at = "done")
  /\ []((\A c \in Callers : callers[c].at \in {"idle", "done"}) =>
          mutex = Unlocked)

\* two calls have returned, one of them an update that took the mutex three
\* times to move the rest of the file, and the mutex is free
C39_Witness ==
  /\ \A c \in Callers : callers[c].at = "done"
  /\ \E c \in Callers : callers[c].op = "update" /\ callers[c].data # <<>>
  /\ \E c \in Callers : callers[c].op = "delete" /\ callers[c].data # <<>>
  /\ mutex = Unlocked


\* the number of rows of the sections that show activity k under the
\* heading of the given day
RECURSIVE Shown(_, _, _)
Shown(sections, k, day) ==
  IF sections = <<>> THEN 0
  ELSE LET s == Head(sections)
           here == Cardinality({j \in DOMAIN s.rows : s.rows[j] = k})
       IN (IF s.day = day THEN here ELSE 0) + Shown(Tail(sections), k, day)

\* C40: ListCommand.Run with the argument "week" shows every activity of the
\* list FindActivitiesBetween returned exactly once, under the heading of
\* the weekday of its start, whatever the order of the list.
C40_WeekComplete ==
  cmd.name = "list" =>
    \A k \in DOMAIN cmd.args :
      \A day \in Weekdays :
        Shown(cmd.err, k, day) = (IF cmd.args[k] = day THEN 1 ELSE 0)

====
